---- MODULE Spec2Model ----
(***************************************************************************)
(* State-machine model of the ixc-trace archival core                      *)
(* (packages/ixc-trace/chats_archive): the encrypted local store           *)
(* (storage.py) and the export orchestrator with its lock file and job     *)
(* ledger (orchestrator.py).                                               *)
(*                                                                         *)
(* The specifications of the module:                                       *)
(*   Spec            the store seen through its public API, with the       *)
(*                   archive directory open to outside modification;       *)
(*   SpecExport      two run_export calls on one archive directory;        *)
(*   FairSpecExport  SpecExport with a polling loop that keeps running;    *)
(*   SpecLedger      two run_export calls by orchestrators that may have   *)
(*                   been constructed with different archive directories;  *)
(*   SpecLock        acquire and release calls on LockFile objects;        *)
(*   SpecWrite       store_conversation written step by step, for readers  *)
(*                   that run concurrently;                                *)
(*   SpecAggregate   aggregate_validator_results;                          *)
(*   SpecManifest    store constructions over every state of the manifest; *)
(*   SpecLoop        the item loop of run_export, call by call;            *)
(*   SpecDates       successful stores over two days;                      *)
(*   SpecListing     the listing of the remote, request by request;        *)
(*   SpecRotate      key rotation of an archive;                           *)
(*   SpecKey         get_or_create_key calls on one secret store and one   *)
(*                   fallback key file.                                    *)
(***************************************************************************)
EXTENDS Integers, Sequences, FiniteSets, TLC

VARIABLES
    \* ---- the archive directory on disk, shared by both specifications
    keyring,      \* the stored Fernet key (credential manager or fallback file), None if absent
    manifest,     \* ARCHIVE.json: NoManifest, UnreadableManifest or ManifestFor(key)
    files,        \* [Paths -> NoFile | Garbage | NonDict | wrapper record]
    dirOrder,     \* the date directories under conversations/, in iterdir() order
    today,        \* the current UTC date (datetime.utcnow())
    \* ---- Spec: one LocalEncryptedStore object and the calls made on it
    store,        \* NoStore, or the object's [open, key, key_mismatch]
    ctorManifest, \* history: the manifest file as it was when `store` was constructed
    nOps,         \* number of store_conversation calls, key imports, I/O failures of
                  \* the construction and outside modifications so far
    \* ---- SpecExport: run_export calls on one archive directory
    lockBackend,  \* "native" (fcntl / msvcrt imported) or "none" (neither)
    lockHeld,     \* the callers that hold the exclusive lock of the lock file
    ledger,       \* the jobs table: [JobIds -> row]
    proc,         \* per caller: position in run_export and its local variables
    hist,         \* history, per job: every counter increment of every invocation
    remote,       \* the conversations the remote lists, in listing order
    \* ---- SpecLock: the LockFile objects (with lockBackend and lockHeld)
    lockObj,      \* per object: _lock_acquired, lock_file, and the last two calls made
    \* ---- SpecKey: EncryptionKeyManager and what it reads and writes
    hasKeyring,   \* whether `import keyring` succeeded
    secretStore,  \* the entry (chats_archive, encryption_key) of the credential manager
    keyFile,      \* ~/.chats_archive/.encryption_key
    keyLog,       \* history: the last key returned, and what the last call did
    \* ---- SpecLedger: orchestrators constructed with their own archive_dir
    lockPath,     \* per caller: the archive directory whose .lock file it locks
    \* ---- SpecAggregate: validator/aggregation.py
    results,      \* the argument of aggregate_validator_results: severity labels
    aggregated,   \* what the call returned, NotAggregated before the call
    \* ---- SpecWrite: one store_conversation call, step by step
    writer,       \* the position of the call in its file write, and its arguments
    \* ---- SpecLoop: the item loop of one run_export call, call by call
    loop,         \* position in the loop, counters, and the calls of the current entry
    \* ---- SpecDates: the days of the successful stores
    storedOn,     \* per identifier, the UTC days on which a store of it returned True
    \* ---- SpecListing: fetch_all_conversations, request by request
    listing       \* the remote's size, the entries collected, the retry count

storeVars  == <<store, ctorManifest, nOps>>
diskVars   == <<keyring, manifest, files, dirOrder, today>>
exportVars == <<lockBackend, lockHeld, ledger, proc, hist, remote>>
keyVars    == <<hasKeyring, secretStore, keyFile, keyLog>>
aggVars    == <<results, aggregated>>
extraVars  == <<storedOn, listing>>
auxVars    == <<lockObj, keyVars, lockPath, aggVars, writer, loop, extraVars>>
vars       == <<diskVars, storeVars, exportVars, auxVars>>

(***************************************************************************)
(* Bounds of the model.                                                    *)
(***************************************************************************)
MaxOps == 4    \* store_conversation calls, key imports, I/O failures of the
               \* construction and outside modifications per behaviour
MaxPolls == 2  \* failed lock attempts before the acquire timeout has elapsed
               \* (timeout 5.0 s, poll interval 0.1 s in the code)
MaxResults == 5 \* validator results passed to one aggregate_validator_results call
MaxItems == 51  \* longest listing whose item loop is followed call by call
MaxRemote == 8  \* most conversations the remote holds when it is listed page by page
BatchSize == 2  \* page size of the listing (DEFAULT_BATCH_SIZE, 100 in the code)

None   == "None"       \* Python's None, where a string is expected
Raised == "RAISED"     \* the call ended with an exception instead of returning

(***************************************************************************)
(* Values.  Keys are Fernet keys; records are JSON documents.  Strings     *)
(* whose characters matter (identifiers, file tokens) are sequences of     *)
(* one-character strings.                                                  *)
(***************************************************************************)
Keys    == {"k1", "k2"}
Records == {"r1", "r2"}
Ids     == {"abc123", "6"}
Days    == {1, 2}        \* two consecutive UTC dates

\* The characters of an identifier.
Chars(id) ==
    CASE id = "abc123"  -> <<"a", "b", "c", "1", "2", "3">>
      [] id = "6"       -> <<"6">>
      [] id = "unknown" -> <<"u", "n", "k", "n", "o", "w", "n">>
      [] OTHER          -> <<>>

\* hashlib.sha256(conversation_id.encode()).hexdigest()[:16], the real digests.
FileToken(id) ==
    CASE id = "abc123"  -> <<"6","c","a","1","3","d","5","2","c","a","7","0","c","8","8","3">>
      [] id = "6"       -> <<"e","7","f","6","c","0","1","1","7","7","6","e","8","d","b","7">>
      [] id = "unknown" -> <<"b","2","3","a","6","a","8","4","3","9","c","0","d","d","e","5">>
      [] OTHER          -> <<"e","3","b","0","c","4","4","2","9","8","f","c","1","c","1","4">>

\* hashlib.sha256(key).hexdigest()[:16]: distinct keys have distinct fingerprints.
\* NoFingerprint stands for a manifest whose key_fingerprint is absent or empty.
Fingerprint(k) == <<"fp", k>>
NoFingerprint  == <<"fp", None>>

\* json.dumps(conversation, default=str).encode(): the serialized text of a record.
JsonDumps(r) == <<"json", r>>
\* json.loads(bytes.decode()): the document of a JSON text, Raised on any other bytes.
JsonLoads(b) == IF b[1] = "json" THEN b[2] ELSE Raised
\* hashlib.sha256(bytes).hexdigest()
Sha256(b) == <<"sha256", b>>
\* The checksum values a wrapper can hold besides a digest:
NoSum   == <<"nosum", <<>>>>     \* absent, empty or otherwise falsy
BadSum  == <<"badsum", <<>>>>    \* a non-empty value that is the digest of nothing stored
NoneSum == <<"None", <<>>>>      \* IntegrityResult's actual_checksum=None

\* base64.b64encode(Fernet(key).encrypt(bytes)).decode(), and the other values the
\* encrypted_content field of a wrapper file can hold.
Encrypt(k, b) == [kind |-> "token", key |-> k, plain |-> b]
NoContent == [kind |-> "none",   key |-> None, plain |-> <<>>]  \* absent, empty or falsy
BadB64    == [kind |-> "badb64", key |-> None, plain |-> <<>>]  \* base64.b64decode raises
Junk      == [kind |-> "junk",   key |-> None, plain |-> <<>>]  \* decodes to no Fernet token
                                                                \* (truncated, random bytes)

\* File contents: a wrapper object, or one of
NoMetadata == [id |-> None]
Blank(kind) == [kind |-> kind, metadata |-> NoMetadata,
                encrypted_content |-> NoContent, checksum |-> NoSum]
NoFile  == Blank("nofile")
Garbage == Blank("garbage")    \* empty, truncated or not JSON, or JSON that is falsy
NonDict == Blank("nondict")    \* valid truthy JSON that is not an object

\* A file that holds the first part of the JSON text of wrapper object w, as a
\* reader finds it while json.dump is writing.
Partial(w) == [w EXCEPT !.kind = "partial"]

Names  == {FileToken(i) : i \in Ids \cup {"unknown"}}
Paths  == Days \X Names
NoPath == <<0, <<>>>>          \* Optional[Path] = None
RaisedPath == <<-1, <<>>>>     \* the lookup raised

\* The wrapper object store_conversation writes; the fields archived_at, version
\* and encryption_version take no part in any read.
StoredObj(k, r, md) ==
    [kind              |-> "wrapper",
     metadata          |-> md,
     encrypted_content |-> Encrypt(k, JsonDumps(r)),
     checksum          |-> Sha256(JsonDumps(r))]

(***************************************************************************)
(* Lookup helpers (storage.py 140-152, 320-349).                           *)
(***************************************************************************)
Min(a, b) == IF a <= b THEN a ELSE b

\* Python's s.startswith(prefix), on character sequences.
StartsWith(s, prefix) ==
    /\ Len(prefix) <= Len(s)
    /\ SubSeq(s, 1, Len(prefix)) = prefix

\* The order in which glob() lists the names of one date directory.  It is up to
\* the file system; no lookup below depends on it, because a date directory holds
\* at most one file that matches the token or the legacy prefix of an identifier,
\* and the metadata scan runs only when no file named by the identifier's token
\* exists, in which case no wrapper written by store_conversation records it.
GlobOrder ==
    <<FileToken("abc123"), FileToken("6"), FileToken("unknown")>>

\* Every path of conversations/<date>/, date directories in iterdir() order and
\* the names of one directory in glob() order.
PathSeq ==
    LET n == Len(GlobOrder)
    IN  [i \in 1..(Len(dirOrder) * n) |->
            <<dirOrder[((i - 1) \div n) + 1], GlobOrder[((i - 1) % n) + 1]>>]

\* The glob patterns in use: conv-<text>.enc, conv-<text>*.enc and conv-*.enc.
ExactPattern(text)  == [kind |-> "exact",  text |-> text]
PrefixPattern(text) == [kind |-> "prefix", text |-> text]
AnyPattern          == [kind |-> "prefix", text |-> <<>>]

\* Whether the file name conv-<name>.enc matches the pattern.
GlobMatches(name, pattern) ==
    IF pattern.kind = "exact" THEN name = pattern.text
    ELSE StartsWith(name, pattern.text)

\* _iter_archive_files(pattern): the existing files whose name matches.
IterArchiveFiles(pattern) ==
    SelectSeq(PathSeq, LAMBDA p : files[p].kind # "nofile" /\ GlobMatches(p[2], pattern))

\* `for fp in ...: return fp` / `return None`
FirstOf(seq) == IF seq = <<>> THEN NoPath ELSE Head(seq)

\* _find_by_new_token: glob conv-<token>.enc
FindByNewToken(id) ==
    FirstOf(IterArchiveFiles(ExactPattern(FileToken(id))))

\* _find_by_legacy_prefix: glob conv-<id[:8]>*.enc
FindByLegacyPrefix(id) ==
    LET prefix == SubSeq(Chars(id), 1, Min(8, Len(Chars(id))))
    IN  FirstOf(IterArchiveFiles(PrefixPattern(prefix)))

\* _load_wrapper: the parsed JSON, None when open/json.load raises.  Garbage also
\* stands for a JSON value that is falsy, which every caller treats like None.
LoadWrapper(path) == files[path]
\* A faulty _load_wrapper that hands on whatever it could read of the file.
FalsyOnlyIfMissing(wrapper) == wrapper.kind = "nofile"

IsFalsy(wrapper) == wrapper.kind \in {"nofile", "garbage", "partial"}

\* _find_by_metadata_scan: loads every file in turn; wrapper.get raises
\* AttributeError on a JSON value that is not an object.
RECURSIVE ScanFrom(_, _, _)
ScanFrom(seq, i, id) ==
    IF i > Len(seq) THEN NoPath
    ELSE LET wrapper == LoadWrapper(seq[i])
         IN  IF IsFalsy(wrapper) THEN ScanFrom(seq, i + 1, id)
             ELSE IF wrapper.kind = "nondict" THEN RaisedPath
             ELSE IF wrapper.metadata.id = id THEN seq[i]
             ELSE ScanFrom(seq, i + 1, id)

FindByMetadataScan(id) ==
    ScanFrom(IterArchiveFiles(AnyPattern), 1, id)

\* find_wrapper_path_for_conversation: new scheme or legacy prefix or metadata scan.
FindWrapperPath(id) ==
    IF FindByNewToken(id) # NoPath THEN FindByNewToken(id)
    ELSE IF FindByLegacyPrefix(id) # NoPath THEN FindByLegacyPrefix(id)
    ELSE FindByMetadataScan(id)

(***************************************************************************)
(* Verification primitives (storage.py 233-314).                           *)
(***************************************************************************)
NoBytes == <<"None", None>>

\* A faulty _decrypt_bytes that fails without naming the cause.
DecryptWithoutCode(st, wrapper) == [bytes |-> NoBytes, err |-> None]

\* _decrypt_bytes: (decrypted_bytes, error_code)
DecryptBytes(st, wrapper) ==
    LET enc == wrapper.encrypted_content
    IN  IF enc.kind = "none" THEN [bytes |-> NoBytes, err |-> "WRAPPER_NO_CONTENT"]
        ELSE IF enc.kind = "badb64"
             THEN [bytes |-> NoBytes, err |-> "WRAPPER_B64_DECODE_FAIL"]
        ELSE IF enc.kind = "token" /\ enc.key = st.key
             THEN [bytes |-> enc.plain, err |-> None]
        ELSE [bytes |-> NoBytes, err |-> "DECRYPT_INVALID_TOKEN"]

IntegrityResult(id, state, path, expected, actual, code) ==
    [conversation_id   |-> id,
     state             |-> state,
     filepath          |-> path,
     expected_checksum |-> expected,
     actual_checksum   |-> actual,
     error_code        |-> code]

\* What a caller sees when the call raises instead of returning a result.
RaisedResult(id) == IntegrityResult(id, Raised, NoPath, NoneSum, NoneSum, None)

\* _verify_wrapper: (IntegrityResult, content)
VerifyWrapper(st, id, path, wrapper, return_content) ==
    LET expected == wrapper.checksum
        dec      == DecryptBytes(st, wrapper)
        actual   == Sha256(dec.bytes)
    IN  IF dec.bytes = NoBytes
        THEN [res |-> IntegrityResult(id,
                          IF dec.err # None THEN "UNREADABLE" ELSE "UNKNOWN",
                          path, expected, NoneSum,
                          IF dec.err # None THEN dec.err ELSE "VERIFY_UNKNOWN"),
              content |-> None]
        ELSE IF expected # NoSum /\ actual # expected
        THEN [res |-> IntegrityResult(id, "CORRUPT", path, expected, actual,
                                      "CHECKSUM_MISMATCH"),
              content |-> None]
        ELSE IF ~return_content
        THEN [res |-> IntegrityResult(id, "VALID", path, expected, actual, None),
              content |-> None]
        ELSE IF JsonLoads(dec.bytes) = Raised
        THEN [res |-> IntegrityResult(id, "UNKNOWN", path, expected, actual,
                                      "JSON_DECODE_FAIL"),
              content |-> None]
        ELSE [res |-> IntegrityResult(id, "VALID", path, expected, actual, None),
              content |-> JsonLoads(dec.bytes)]

\* _ensure_key_matches_manifest
EnsureKeyMatchesManifest(st) == ~st.key_mismatch

(***************************************************************************)
(* Public read API (storage.py 359-415).                                   *)
(***************************************************************************)
\* verify_conversation
VerifyConversation(st, id) ==
    IF ~EnsureKeyMatchesManifest(st)
    THEN IntegrityResult(id, "UNREADABLE", NoPath, NoneSum, NoneSum,
                         "WRONG_KEY_MANIFEST_MISMATCH")
    ELSE LET filepath == FindWrapperPath(id)
         IN  IF filepath = RaisedPath THEN RaisedResult(id)
             ELSE IF filepath = NoPath
             THEN IntegrityResult(id, "MISSING", NoPath, NoneSum, NoneSum, "NOT_FOUND")
             ELSE LET wrapper == LoadWrapper(filepath)
                  IN  IF IsFalsy(wrapper)
                      THEN IntegrityResult(id, "UNKNOWN", filepath, NoneSum, NoneSum,
                                           "WRAPPER_LOAD_FAIL")
                      ELSE IF wrapper.kind = "nondict" THEN RaisedResult(id)
                      ELSE VerifyWrapper(st, id, filepath, wrapper, FALSE).res

\* has_valid_conversation (a raise of verify_conversation propagates)
HasValidConversation(st, id) ==
    IF VerifyConversation(st, id).state = Raised THEN Raised
    ELSE IF VerifyConversation(st, id).state = "VALID" THEN "True" ELSE "False"

\* The part of retrieve_conversation after the manifest check.
RetrieveFromWrapper(st, id) ==
    LET filepath == FindWrapperPath(id)
    IN  IF filepath = RaisedPath THEN Raised
        ELSE IF filepath = NoPath THEN None
        ELSE LET wrapper == LoadWrapper(filepath)
             IN  IF IsFalsy(wrapper) THEN None
                 ELSE IF wrapper.kind = "nondict" THEN Raised
                 ELSE LET v == VerifyWrapper(st, id, filepath, wrapper, TRUE)
                      IN  IF v.res.state # "VALID" THEN None ELSE v.content

\* A faulty retrieve_conversation that omits the manifest check.
RetrieveWithoutKeyCheck(st, id) == RetrieveFromWrapper(st, id)

\* retrieve_conversation: the decoded record, None, or Raised
RetrieveConversation(st, id) ==
    IF ~EnsureKeyMatchesManifest(st) THEN None
    ELSE RetrieveFromWrapper(st, id)

(***************************************************************************)
(* Key manager and store construction (storage.py 59-123, 158-180).        *)
(***************************************************************************)
NoManifest         == [kind |-> "nofile",     key_fingerprint |-> NoFingerprint]
UnreadableManifest == [kind |-> "unreadable", key_fingerprint |-> NoFingerprint]
ManifestFor(k)     == [kind |-> "json",       key_fingerprint |-> Fingerprint(k)]

\* A manifest that is a JSON object without key_fingerprint, or with an empty one.
UnboundManifest    == [kind |-> "json",       key_fingerprint |-> NoFingerprint]

NoStore == [open |-> FALSE, key |-> None, key_mismatch |-> FALSE]

\* get_or_create_key: the stored key, or a newly generated one when none is stored.
\* Keys are interchangeable: the first key ever in use is called k1.
GetOrCreateKey(k) == IF keyring = None THEN k = "k1" ELSE k = keyring

\* A faulty _load_or_init_manifest that never compares the fingerprints.
KeyMismatchWithoutCompare(k, io) ==
    IF manifest.kind = "unreadable" THEN TRUE
    ELSE IF manifest.kind = "json" THEN FALSE
    ELSE io # "ok"

\* _load_or_init_manifest: the value of _key_mismatch it leaves.  `io` is what
\* the write of a new manifest does: "ok", or the step that raises.
KeyMismatchAfterLoad(k, io) ==
    IF manifest.kind = "unreadable" THEN TRUE
    ELSE IF manifest.kind = "json"
    THEN manifest.key_fingerprint # NoFingerprint
         /\ manifest.key_fingerprint # Fingerprint(k)
    ELSE io # "ok"

\* _load_or_init_manifest: the manifest file it leaves.
ManifestAfterLoad(k, io) ==
    IF manifest.kind # "nofile" THEN manifest
    ELSE IF io = "open" THEN NoManifest
    ELSE IF io = "write" THEN UnreadableManifest
    ELSE ManifestFor(k)

\* LocalEncryptedStore.__init__
NewStore(k, io) ==
    /\ GetOrCreateKey(k)
    /\ io # "ok" => manifest.kind = "nofile" /\ nOps < MaxOps
    /\ nOps' = IF io = "ok" THEN nOps ELSE nOps + 1
    /\ keyring' = k
    /\ manifest' = ManifestAfterLoad(k, io)
    /\ store' = [open |-> TRUE, key |-> k, key_mismatch |-> KeyMismatchAfterLoad(k, io)]
    /\ ctorManifest' = manifest
    /\ UNCHANGED <<files, dirOrder, today, exportVars, auxVars>>

\* ARCHIVE.json as a constructor may find it: absent, not readable as a JSON
\* object, an object without key_fingerprint, or one that records a fingerprint.
ManifestFiles ==
    {NoManifest, UnreadableManifest, UnboundManifest} \cup {ManifestFor(k) : k \in Keys}

\* The manifest file is replaced, edited or removed between two constructions.
EditManifest(m) ==
    /\ manifest # m
    /\ manifest' = m
    /\ UNCHANGED <<keyring, files, dirOrder, today, storeVars, exportVars, auxVars>>

\* cli.key_import: the active key is replaced; the manifest is not touched.
KeyImport(k) ==
    /\ keyring # k
    /\ keyring = None => k = "k1"
    /\ nOps < MaxOps
    /\ nOps' = nOps + 1
    /\ keyring' = k
    /\ UNCHANGED <<manifest, files, dirOrder, today, store, ctorManifest, exportVars, auxVars>>

(***************************************************************************)
(* Write path (storage.py 186-227).                                        *)
(***************************************************************************)
\* The sequence with x inserted after position pos.
InsertAt(seq, pos, x) ==
    SubSeq(seq, 1, pos) \o <<x>> \o SubSeq(seq, pos + 1, Len(seq))

InSeq(seq, x) == \E i \in 1..Len(seq) : seq[i] = x

\* date_dir.mkdir(parents=True, exist_ok=True): a new directory may show up at
\* any position of the parent's listing.
MkDateDir(day) ==
    IF InSeq(dirOrder, day) THEN dirOrder' = dirOrder
    ELSE \E pos \in 0..Len(dirOrder) : dirOrder' = InsertAt(dirOrder, pos, day)

\* metadata_dict.get('id') or metadata_dict.get('conversation_id', 'unknown')
ConvIdOf(md) == IF md.id # None THEN md.id ELSE "unknown"

\* A faulty _wrapper_path_for that leaves the date out of the path.
PathWithoutDate(id, day) == <<1, FileToken(id)>>

\* _wrapper_path_for
WrapperPathFor(id, day) == <<day, FileToken(id)>>

StoreFailures == {"ok", "early", "write", "chmod"}

\* The effect of store_conversation of store object st on the archive files.
\* `io` is "ok" or the step that raises: "early" (serialization, encryption,
\* mkdir or open: no file is touched), "write" (the file is left truncated) or
\* "chmod" (the file is complete).
StoreWrites(st, r, md, io) ==
    LET filepath == WrapperPathFor(ConvIdOf(md), today)
    IN  IF io = "early" THEN UNCHANGED <<files, dirOrder>>
        ELSE /\ MkDateDir(today)
             /\ files' = IF io = "write"
                         THEN [files EXCEPT ![filepath] = Garbage]
                         ELSE [files EXCEPT ![filepath] = StoredObj(st.key, r, md)]

\* A faulty store_conversation that reports success whatever happened.
StoreAlwaysTrue(io) == "True"

\* What store_conversation returns: True at the end of the try block (223),
\* False from `except Exception` (224-227); nothing is raised.
StoreResult(io) == IF io = "ok" THEN "True" ELSE "False"

\* store_conversation: returns True only when no step raised.
StoreConversation(r, id, io) ==
    /\ store.open
    /\ nOps < MaxOps
    /\ nOps' = nOps + 1
    /\ StoreWrites(store, r, [id |-> id], io)
    /\ UNCHANGED <<keyring, manifest, today, store, ctorManifest, exportVars, auxVars>>

\* A store_conversation call that returns True, with the day of the call noted.
StoreOnDay(r, id) ==
    /\ store.open
    /\ nOps < MaxOps
    /\ nOps' = nOps + 1
    /\ StoreWrites(store, r, [id |-> id], "ok")
    /\ storedOn' = [storedOn EXCEPT ![id] = @ \cup {today}]
    /\ UNCHANGED <<keyring, manifest, today, store, ctorManifest, exportVars,
                   lockObj, keyVars, lockPath, aggVars, writer, loop, listing>>

(***************************************************************************)
(* The environment: the clock, and modification of wrapper files from      *)
(* outside the program (bit rot, an editor, another tool).                 *)
(***************************************************************************)
NextDay ==
    /\ today + 1 \in Days
    /\ today' = today + 1
    /\ UNCHANGED <<keyring, manifest, files, dirOrder, storeVars, exportVars, auxVars>>

\* What the checksum field may be replaced by: nothing, or a different digest.
Checksums == {NoSum, BadSum}
\* What encrypted_content may be replaced by: nothing, undecodable text, bytes
\* that are no token, or the encrypted_content copied from another wrapper file.
Contents  == {NoContent, BadB64, Junk}
                 \cup {files[q].encrypted_content : q \in Paths}

Tampered(path, content) ==
    /\ nOps < MaxOps
    /\ nOps' = nOps + 1
    /\ files' = [files EXCEPT ![path] = content]
    /\ UNCHANGED <<keyring, manifest, dirOrder, today, store, ctorManifest, exportVars, auxVars>>

\* The checksum field of a wrapper file is replaced by another value.
TamperChecksum(path, v) ==
    /\ files[path].kind = "wrapper"
    /\ v # files[path].checksum
    /\ Tampered(path, [files[path] EXCEPT !.checksum = v])

\* The encrypted_content field of a wrapper file is replaced by another value.
TamperContent(path, v) ==
    /\ files[path].kind = "wrapper"
    /\ v # files[path].encrypted_content
    /\ Tampered(path, [files[path] EXCEPT !.encrypted_content = v])

\* The whole file is replaced by something that is not a wrapper object.
CorruptFile(path, c) ==
    /\ files[path].kind = "wrapper"
    /\ Tampered(path, c)

(***************************************************************************)
(* scripts/rotate_key.py (23-86).                                          *)
(***************************************************************************)
\* Lines 47-67 for one file: a wrapper object whose content decrypts under the
\* old key is rewritten with the content under the new key and the checksum
\* of the decrypted text; every other file is counted as failed and left.
RotateFile(w, old, new) ==
    IF /\ w.kind = "wrapper"
       /\ w.encrypted_content.kind = "token"
       /\ w.encrypted_content.key = old
    THEN [w EXCEPT !.encrypted_content = Encrypt(new, w.encrypted_content.plain),
                   !.checksum = Sha256(w.encrypted_content.plain)]
    ELSE w

\* main(): every wrapper file is rotated, then the manifest gets the
\* fingerprint of the new key (69-83).  The OS keyring is not touched (86).
RotateKey(old, new) ==
    /\ old # new
    /\ dirOrder # <<>>
    /\ nOps < MaxOps
    /\ nOps' = nOps + 1
    /\ files' = [p \in Paths |-> RotateFile(files[p], old, new)]
    /\ manifest' = ManifestFor(new)
    /\ UNCHANGED <<keyring, dirOrder, today, store, ctorManifest, exportVars, auxVars>>

(***************************************************************************)
(* The job ledger (orchestrator.py 99-171).                                *)
(***************************************************************************)
Procs  == {1, 2}     \* two callers of run_export on the same archive directory,
                     \* each making one call
JobIds == {1, 2}     \* job identifiers; 0 stands for resume_job_id=None

\* A row of the jobs table; `errors` is the number of entries of the JSON list.
NoRow == [status |-> "absent", total |-> 0, successful |-> 0, failed |-> 0,
          errors |-> 0, completed_at |-> FALSE]

\* A faulty create_job that always uses the first identifier and replaces the
\* row that has it.
CreateJobReplacing(led) == [led EXCEPT ![1] = [NoRow EXCEPT !.status = "pending"]]

\* JobTracker.create_job: a row with a fresh identifier, status pending.
NewJobId(led) == CHOOSE j \in JobIds : led[j] = NoRow /\ \A k \in 1..(j - 1) : led[k] # NoRow
CreateJob(led) == [led EXCEPT ![NewJobId(led)] = [NoRow EXCEPT !.status = "pending"]]

\* str(uuid.uuid4())[:8] may repeat the identifier of an existing row; job_id
\* is the PRIMARY KEY, so the INSERT then raises and adds nothing.
InsertCollides(led) == \E j \in JobIds : led[j] # NoRow

\* JobTracker.update_job_status(job_id, status, **kwargs): `upd` holds the other
\* columns to set.  UPDATE ... WHERE job_id = ? changes nothing when no row matches.
UpdateJobStatus(led, j, status, upd) ==
    IF led[j] = NoRow THEN led
    ELSE [led EXCEPT ![j] =
            [c \in DOMAIN led[j] |->
                IF c = "status" THEN status
                ELSE IF c = "completed_at"
                     THEN (status \in {"completed", "failed"}) \/ led[j].completed_at
                ELSE IF c \in DOMAIN upd THEN upd[c]
                ELSE led[j][c]]]

\* JobTracker.get_job: whether a row exists.
GetJob(led, j) == IF j \in JobIds THEN led[j] ELSE NoRow

(***************************************************************************)
(* The lock file (orchestrator.py 20-96).                                  *)
(***************************************************************************)
\* A faulty acquire whose lock attempt never fails.
LockAlwaysGranted(p) == TRUE

\* LockFile.acquire, one pass of its loop: whether the non-blocking exclusive
\* lock is granted to caller p.  Without fcntl and msvcrt the pid is written and
\* nothing can fail.
LockGranted(p) ==
    \/ lockBackend = "none"
    \/ \A q \in lockHeld : q = p \/ lockPath[q] # lockPath[p]

\* A faulty release that unlocks whoever holds the lock.
ReleaseAnyHolder(pr, p) == {}

\* A faulty release that leaves the lock in place.
ReleaseKeepsLock(pr, p) == lockHeld

\* LockFile.release: a no-op unless this object acquired; else unlock and close.
LockRelease(pr, p) == IF ~pr.lock_acquired THEN lockHeld ELSE lockHeld \ {p}

(***************************************************************************)
(* run_export (orchestrator.py 184-338).  A caller is at one of            *)
(*   idle      run_export not called yet                                   *)
(*   acquire   in LockFile.__enter__, polling for the lock                 *)
(*   resolve   lock acquired, before the job is resolved                   *)
(*   prepare   job in_progress, before the health check and the listing    *)
(*   loop      in the item loop, before item i + 1                         *)
(*   done      run_export has returned or raised                           *)
(***************************************************************************)
\* What the loop did with the entry it processed last; ok: counted as successful.
NoItem == [id |-> None, fetched |-> FALSE, stored |-> FALSE, ok |-> FALSE]

IdleProc ==
    [pc |-> "idle", lock_acquired |-> FALSE, polls |-> 0,
     resume_job_id |-> 0, force_refetch |-> FALSE, job_id |-> 0,
     st |-> NoStore, list |-> <<>>, i |-> 0,
     successful |-> 0, failed |-> 0, errors |-> 0,
     \* history: what the loop did for the entry it processed last, and how
     \* the call ended
     last |-> NoItem, result |-> "none"]

\* interrupted: "no", "between" (two entries of the loop) or "other"
NoHist == [successful |-> 0, failed |-> 0, interrupted |-> "no", resumed |-> FALSE]

\* The listings of the remote; "unknown" stands for an entry without 'id'.
Listings == {<<"abc123">>, <<"abc123", "unknown">>}
\* The record the remote holds for every conversation.
RemoteRecord == "r2"

\* conv_metadata of a listed entry, and conv_metadata.get('id', 'unknown').
MetadataOf(x) == IF x = "unknown" THEN NoMetadata ELSE [id |-> x]

\* The call of p ends (by `return` or by an exception): __exit__ releases the
\* lock and the locals are gone.
EndCall(p, result) ==
    /\ lockHeld' = LockRelease(proc[p], p)
    /\ proc' = [proc EXCEPT ![p] = [IdleProc EXCEPT !.pc = "done", !.result = result]]

\* run_export is called.  Callers are interchangeable: caller 1 calls first.
RunExport(p, resume_job_id, force_refetch) ==
    /\ proc[p].pc = "idle"
    /\ p # 1 => proc[1].pc # "idle"
    /\ proc' = [proc EXCEPT ![p] = [IdleProc EXCEPT !.pc = "acquire",
                                                     !.resume_job_id = resume_job_id,
                                                     !.force_refetch = force_refetch]]
    /\ UNCHANGED <<diskVars, storeVars, auxVars, lockBackend, remote, lockHeld, ledger, hist>>

\* LockFile.__enter__ -> acquire(timeout=5.0): one pass of the loop.
Acquire(p) ==
    /\ proc[p].pc = "acquire"
    /\ IF LockGranted(p)
       THEN /\ lockHeld' = IF lockBackend = "none" THEN lockHeld ELSE lockHeld \cup {p}
            /\ proc' = [proc EXCEPT ![p].pc = "resolve", ![p].lock_acquired = TRUE,
                                    ![p].polls = 0]
       ELSE IF proc[p].polls >= MaxPolls
       THEN \* acquire returns False, __enter__ raises RuntimeError
            EndCall(p, "lock_error")
       ELSE /\ proc' = [proc EXCEPT ![p].polls = @ + 1]
            /\ UNCHANGED lockHeld
    /\ UNCHANGED <<diskVars, storeVars, auxVars, lockBackend, remote, ledger, hist>>

\* _run_export_locked, job resolution (192-203).
ResolveJob(p) ==
    /\ proc[p].pc = "resolve"
    /\ IF proc[p].resume_job_id # 0 /\ GetJob(ledger, proc[p].resume_job_id) = NoRow
       THEN \* ValueError("Job ... not found")
            /\ EndCall(p, "raised")
            /\ UNCHANGED <<ledger, hist>>
       ELSE \/ \* create_job raises sqlite3.IntegrityError
               /\ proc[p].resume_job_id = 0
               /\ InsertCollides(ledger)
               /\ EndCall(p, "raised")
               /\ UNCHANGED <<ledger, hist>>
            \/ LET led == IF proc[p].resume_job_id # 0 THEN ledger ELSE CreateJob(ledger)
                   j   == IF proc[p].resume_job_id # 0 THEN proc[p].resume_job_id
                          ELSE NewJobId(ledger)
               IN  /\ ledger' = UpdateJobStatus(led, j, "in_progress", <<>>)
                   /\ hist' = IF proc[p].resume_job_id # 0
                              THEN [hist EXCEPT ![j].resumed = TRUE] ELSE hist
                   /\ proc' = [proc EXCEPT ![p].pc = "prepare", ![p].job_id = j,
                                           ![p].resume_job_id = 0]
                   /\ UNCHANGED lockHeld
    /\ UNCHANGED <<diskVars, storeVars, auxVars, lockBackend, remote>>

PrepareOutcomes ==
    {"ok", "no_token", "store_error", "unhealthy", "bad_token", "list_error"}

\* The outcomes that raise before the store has loaded the manifest: no token
\* (207-208), or _init_directories / get_or_create_key raising in the store
\* constructor (storage.py 114-116).
BeforeManifest == {"no_token", "store_error"}

\* A faulty health check branch that raises like the other failures.
UnhealthyRaises(outcome) == "raised"

\* A faulty handler that swallows the exception and returns the job id.
ExceptionSwallowed(outcome) == "returned"

\* How _run_export_locked ends when it does not reach the loop: `return job_id`
\* after a non-OK health check (215-220), `raise` from the handler otherwise
\* (334-338).
HowPrepareEnds(outcome) == IF outcome = "unhealthy" THEN "returned" ELSE "raised"

\* _run_export_locked from the token to the listing (205-243).  `outcome` is what
\* the token manager and the remote do, `io` what the manifest write of the store
\* construction does.
Prepare(p, outcome, io) ==
    LET j == proc[p].job_id
        k == keyring
    IN  /\ proc[p].pc = "prepare"
        /\ k # None
        /\ io # "ok" => manifest.kind = "nofile" /\ outcome \notin BeforeManifest
        /\ manifest' = IF outcome \in BeforeManifest THEN manifest
                       ELSE ManifestAfterLoad(k, io)
        /\ IF outcome = "ok"
           THEN /\ proc' = [proc EXCEPT
                       ![p].pc = "loop",
                       ![p].st = [open |-> TRUE, key |-> k,
                                  key_mismatch |-> KeyMismatchAfterLoad(k, io)],
                       ![p].list = remote]
                /\ UNCHANGED <<ledger, lockHeld>>
           ELSE /\ ledger' = UpdateJobStatus(ledger, j, "failed",
                                             [errors |-> 1])
                /\ EndCall(p, HowPrepareEnds(outcome))
        /\ UNCHANGED <<keyring, files, dirOrder, today, storeVars, auxVars, lockBackend, remote, hist>>

DetailOutcomes == {"ok", "none", "permission", "error"}

\* The skip test of line 251: "skip", "fetch", or "raise" when
\* has_valid_conversation raises.
SkipTest(pr, x) ==
    IF pr.force_refetch \/ x = "unknown" THEN "fetch"
    ELSE IF HasValidConversation(pr.st, x) = Raised THEN "raise"
    ELSE IF HasValidConversation(pr.st, x) = "True" THEN "skip"
    ELSE "fetch"

\* One pass of the item loop (246-308).  `detail` is what
\* fetch_conversation_detail does, `io` what store_conversation meets.
ProcessItem(p, detail, io) ==
    LET pr   == proc[p]
        x    == pr.list[pr.i + 1]
        test == SkipTest(pr, x)
        fetched == test = "fetch"
        stored  == fetched /\ detail = "ok"
        ok   == test = "skip" \/ (stored /\ StoreResult(io) = "True")
    IN  /\ pr.pc = "loop"
        /\ pr.i < Len(pr.list)
        /\ ~fetched => detail = "ok"
        /\ ~stored => io = "ok"
        /\ IF stored THEN StoreWrites(pr.st, RemoteRecord, MetadataOf(x), io)
                     ELSE UNCHANGED <<files, dirOrder>>
        /\ proc' = [proc EXCEPT
               ![p].i = @ + 1,
               ![p].successful = IF ok THEN @ + 1 ELSE @,
               ![p].failed = IF ok THEN @ ELSE @ + 1,
               ![p].errors = IF ok THEN @ ELSE @ + 1,
               ![p].last = [id |-> x, fetched |-> fetched, stored |-> stored, ok |-> ok]]
        /\ hist' = [hist EXCEPT
               ![pr.job_id].successful = IF ok THEN @ + 1 ELSE @,
               ![pr.job_id].failed = IF ok THEN @ ELSE @ + 1]
        /\ UNCHANGED <<keyring, manifest, today, storeVars, auxVars, lockBackend, lockHeld,
                       ledger, remote>>

\* A faulty final update that marks the job completed without its counters.
FinishWithoutCounters(p) ==
    /\ proc[p].pc = "loop"
    /\ proc[p].i = Len(proc[p].list)
    /\ ledger' = UpdateJobStatus(ledger, proc[p].job_id, "completed", <<>>)
    /\ EndCall(p, "returned")
    /\ UNCHANGED <<diskVars, storeVars, auxVars, lockBackend, remote, hist>>

\* The end of the loop: the final update (310-316) and `return job_id`.
Finish(p) ==
    LET pr == proc[p]
    IN  /\ pr.pc = "loop"
        /\ pr.i = Len(pr.list)
        /\ ledger' = UpdateJobStatus(ledger, pr.job_id, "completed",
                         [total |-> Len(pr.list), successful |-> pr.successful,
                          failed |-> pr.failed, errors |-> pr.errors])
        /\ EndCall(p, "returned")
        /\ UNCHANGED <<diskVars, storeVars, auxVars, lockBackend, remote, hist>>

\* KeyboardInterrupt while the job is in progress: `except Exception` does not
\* catch it, __exit__ runs, run_export raises.
Interrupt(p) ==
    /\ proc[p].pc \in {"prepare", "loop"}
    /\ hist' = [hist EXCEPT ![proc[p].job_id].interrupted =
                   IF proc[p].pc = "loop" /\ 0 < proc[p].i /\ proc[p].i < Len(proc[p].list)
                   THEN "between" ELSE "other"]
    /\ EndCall(p, "interrupted")
    /\ UNCHANGED <<diskVars, storeVars, auxVars, lockBackend, remote, ledger>>

(***************************************************************************)
(* LockFile objects (orchestrator.py 20-96), called directly.              *)
(***************************************************************************)
\* A LockFile as __init__ leaves it; prev and last are the last two calls made
\* on the object: "none", "acquired", "failed" (acquire returned False) or
\* "released".
NewLockFile == [lock_acquired |-> FALSE, lock_file |-> None,
                prev |-> "none", last |-> "none"]

\* What the system calls of acquire do: "open" and "chmod" name the one that
\* raises OSError.
AcquireIO == {"ok", "open", "chmod"}

\* acquire(timeout=0.0) on an object that does not hold the lock: one attempt.
\* On any exception the file is closed, which gives up a lock just taken.
LockAcquire(o, io) ==
    LET granted == io = "ok" /\ LockGranted(o)
    IN  /\ ~lockObj[o].lock_acquired
        /\ lockHeld' = IF granted /\ lockBackend # "none" THEN lockHeld \cup {o}
                       ELSE lockHeld
        /\ lockObj' = [lockObj EXCEPT ![o] =
               [lock_acquired |-> granted,
                lock_file |-> IF granted THEN "open" ELSE None,
                prev |-> lockObj[o].last,
                last |-> IF granted THEN "acquired" ELSE "failed"]]
        /\ UNCHANGED <<diskVars, storeVars, lockBackend, ledger, proc, hist, remote,
                       keyVars, lockPath, aggVars, writer, loop, extraVars>>

\* release(), in whatever state the object is: returns at once unless
\* _lock_acquired; else unlocks, closes the file and clears the flag, swallowing
\* every exception.
LockReleaseCall(o) ==
    /\ lockHeld' = LockRelease(lockObj[o], o)
    /\ lockObj' = [lockObj EXCEPT ![o] =
           [lock_acquired |-> FALSE,
            lock_file |-> IF lockObj[o].lock_acquired THEN None ELSE lockObj[o].lock_file,
            prev |-> lockObj[o].last,
            last |-> "released"]]
    /\ UNCHANGED <<diskVars, storeVars, lockBackend, ledger, proc, hist, remote,
                   keyVars, lockPath, aggVars, writer, loop, extraVars>>

(***************************************************************************)
(* EncryptionKeyManager (storage.py 46-102).                               *)
(***************************************************************************)
\* Stored text that is no Fernet key (wrong length, not base64, empty file).
Garbled == "garbled"

\* What the secret store entry or the key file may hold; None: nothing stored.
KeyMaterial == Keys \cup {Garbled, None}

\* A faulty validity test that accepts every stored value.
AnyKeyAccepted(v) == v # None

\* `if stored_key:` and Fernet(stored_key.encode()) not raising.
IsValidKey(v) == v \in Keys

\* Which call to the credential manager raises, and which step on the key
\* file raises.
KeyringIO == {"ok", "get", "set"}
KeyFileIO == {"ok", "read", "open", "write", "chmod"}

\* The lookup of get_or_create_key (61-80): the credential manager first, then
\* the key file; None when neither holds a valid key.
StoredKey ==
    IF hasKeyring /\ IsValidKey(secretStore) THEN secretStore
    ELSE IF IsValidKey(keyFile) THEN keyFile
    ELSE None

\* _store_key_locally(key): the key file it leaves.  open(..., 'w') truncates,
\* so a failing write leaves no key behind.
KeyFileAfterStore(key, fio) ==
    IF fio = "open" THEN keyFile
    ELSE IF fio = "write" THEN Garbled
    ELSE key

\* last: the key the last returning call returned; created: the key the last
\* generating and returning call generated; result, generated: the last call.
NoKeyLog == [last |-> None, created |-> None, result |-> None, generated |-> FALSE]

\* get_or_create_key.  `new` is what Fernet.generate_key() yields.
GetOrCreateKeyCall(new, kio, fio) ==
    LET getRaises  == hasKeyring /\ kio = "get"
        fromStore  == hasKeyring /\ IsValidKey(secretStore)
        readRaises == ~getRaises /\ ~fromStore /\ keyFile # None /\ fio = "read"
        generates  == ~getRaises /\ ~readRaises /\ StoredKey = None
        setOk      == generates /\ hasKeyring /\ kio # "set"
        toFile     == generates /\ ~setOk
        wio        == IF fio = "read" THEN "ok" ELSE fio
        result     == IF getRaises \/ readRaises \/ (toFile /\ wio # "ok") THEN Raised
                      ELSE IF generates THEN new
                      ELSE StoredKey
    IN  /\ secretStore' = IF setOk THEN new ELSE secretStore
        /\ keyFile' = IF toFile THEN KeyFileAfterStore(new, wio) ELSE keyFile
        /\ keyLog' = [last |-> IF result # Raised THEN result ELSE keyLog.last,
                      created |-> IF generates /\ result # Raised THEN new
                                  ELSE keyLog.created,
                      result |-> result,
                      generated |-> generates]
        /\ UNCHANGED <<diskVars, storeVars, exportVars, lockObj, hasKeyring, lockPath,
                       aggVars, writer, loop, extraVars>>

(***************************************************************************)
(* validator/aggregation.py: aggregate_validator_results with the default  *)
(* weights.                                                                *)
(***************************************************************************)
MAX_SCORE == 100
UNKNOWN_SEVERITY_WEIGHT == 3

\* The severity labels of the results: the four known ones, one in capitals
\* and one that no weight is defined for.
SeverityLabels == {"critical", "high", "medium", "low", "HIGH", "custom"}

\* DEFAULT_SEVERITY_WEIGHTS and its keys.
WeightedSeverities == {"critical", "high", "medium", "low"}
DefaultWeight(sev) ==
    CASE sev = "critical" -> 25
      [] sev = "high" -> 10
      [] sev = "medium" -> 3
      [] sev = "low" -> 1

\* _extract_severity of a bare string: the label in lower case.
ExtractSeverity(result) == IF result = "HIGH" THEN "high" ELSE result

\* weights.get(severity, UNKNOWN_SEVERITY_WEIGHT)
WeightOf(sev) ==
    IF sev \in WeightedSeverities THEN DefaultWeight(sev) ELSE UNKNOWN_SEVERITY_WEIGHT

Max(a, b) == IF a >= b THEN a ELSE b

\* A faulty score that is not clamped at zero.
ScoreUnclamped(total_penalty) == MAX_SCORE - total_penalty

\* hygiene_score = max(0, MAX_SCORE - total_penalty)
HygieneScore(total_penalty) == Max(0, MAX_SCORE - total_penalty)

\* _rating_from_score
RatingFromScore(score) ==
    IF score >= 90 THEN "clean"
    ELSE IF score >= 70 THEN "needs_attention"
    ELSE IF score >= 40 THEN "high_risk"
    ELSE "unsafe"

\* The loop of aggregate_validator_results over the first n results: the
\* Counter and the running total.
RECURSIVE AggregateLoop(_, _)
AggregateLoop(res, n) ==
    IF n = 0 THEN [severity_counts |-> << >>, total_penalty |-> 0]
    ELSE LET acc      == AggregateLoop(res, n - 1)
             severity == ExtractSeverity(res[n])
             seen     == severity \in DOMAIN acc.severity_counts
         IN  [severity_counts |->
                  [k \in DOMAIN acc.severity_counts \cup {severity} |->
                      IF k = severity
                      THEN (IF seen THEN acc.severity_counts[k] ELSE 0) + 1
                      ELSE acc.severity_counts[k]],
              total_penalty |-> acc.total_penalty + WeightOf(severity)]

\* aggregate_validator_results(results): score, rating, and the counts with
\* setdefault(severity, 0) for every weighted severity.
AggregateValidatorResults(res) ==
    LET acc == AggregateLoop(res, Len(res))
        hygiene_score == HygieneScore(acc.total_penalty)
    IN  [hygiene_score |-> hygiene_score,
         rating |-> RatingFromScore(hygiene_score),
         severity_counts |->
             [k \in DOMAIN acc.severity_counts \cup WeightedSeverities |->
                 IF k \in DOMAIN acc.severity_counts THEN acc.severity_counts[k] ELSE 0],
         total_penalty |-> acc.total_penalty]

NotAggregated == [hygiene_score |-> -1, rating |-> "none",
                  severity_counts |-> << >>, total_penalty |-> -1]

\* One call of aggregate_validator_results.
Aggregate ==
    /\ aggregated = NotAggregated
    /\ aggregated' = AggregateValidatorResults(results)
    /\ UNCHANGED <<diskVars, storeVars, exportVars, lockObj, keyVars, lockPath, results, writer, loop, extraVars>>

\* The caller collects one more validator result before the call.
AddResult(sev) ==
    /\ aggregated = NotAggregated
    /\ Len(results) < MaxResults
    /\ results' = Append(results, sev)
    /\ UNCHANGED <<diskVars, storeVars, exportVars, lockObj, keyVars, lockPath, aggregated, writer, loop, extraVars>>

(***************************************************************************)
(* store_conversation step by step (storage.py 195-218), as a concurrent   *)
(* reader of the archive directory sees it.                                *)
(***************************************************************************)
\* pc: "idle", "dir" (date directory made, file not opened yet), "opened"
\* (open(filepath, 'w') has truncated the file), "writing" (json.dump has
\* written part of the text).
IdleWriter == [pc |-> "idle", r |-> None, id |-> None, day |-> 0]

WriterPath == WrapperPathFor(writer.id, writer.day)

\* The call starts: serialization, encryption, `today`, mkdir.
StoreBegin(r, id) ==
    /\ store.open
    /\ writer.pc = "idle"
    /\ nOps < MaxOps
    /\ nOps' = nOps + 1
    /\ MkDateDir(today)
    /\ writer' = [pc |-> "dir", r |-> r, id |-> id, day |-> today]
    /\ UNCHANGED <<keyring, manifest, files, today, store, ctorManifest, exportVars,
                   lockObj, keyVars, lockPath, aggVars, loop, extraVars>>

\* open(filepath, 'w'): the file exists and is empty.
StoreOpen ==
    /\ writer.pc = "dir"
    /\ files' = [files EXCEPT ![WriterPath] = Garbage]
    /\ writer' = [writer EXCEPT !.pc = "opened"]
    /\ UNCHANGED <<keyring, manifest, dirOrder, today, storeVars, exportVars,
                   lockObj, keyVars, lockPath, aggVars, loop, extraVars>>

\* json.dump has written the first part of the text.
StoreWritePart ==
    /\ writer.pc = "opened"
    /\ files' = [files EXCEPT ![WriterPath] =
                    Partial(StoredObj(store.key, writer.r, [id |-> writer.id]))]
    /\ writer' = [writer EXCEPT !.pc = "writing"]
    /\ UNCHANGED <<keyring, manifest, dirOrder, today, storeVars, exportVars,
                   lockObj, keyVars, lockPath, aggVars, loop, extraVars>>

\* json.dump has written the rest and the file is closed; the call returns.
StoreClose ==
    /\ writer.pc = "writing"
    /\ files' = [files EXCEPT ![WriterPath] =
                    StoredObj(store.key, writer.r, [id |-> writer.id])]
    /\ writer' = IdleWriter
    /\ UNCHANGED <<keyring, manifest, dirOrder, today, storeVars, exportVars,
                   lockObj, keyVars, lockPath, aggVars, loop, extraVars>>

\* A step raises: the call returns False and the file stays as it is.
StoreAbort ==
    /\ writer.pc # "idle"
    /\ writer' = IdleWriter
    /\ UNCHANGED <<diskVars, storeVars, exportVars, lockObj, keyVars, lockPath, aggVars, loop, extraVars>>

(***************************************************************************)
(* The item loop of _run_export_locked, call by call (orchestrator.py      *)
(* 234-316).  Each action is the return of one call and the statements     *)
(* that follow it up to the next call.                                     *)
(***************************************************************************)
PersistentFailureThreshold == 25

\* pc: "next" (top of the loop), "verifying" (has_valid_conversation is
\* running), "fetching" (fetch_conversation_detail is running), "storing"
\* (store_conversation is running), "done" (the job row is completed).
\* errors counts the tags appended, tag is the one the entry appended, calls
\* lists the calls issued for the entry, warning tells whether the entry
\* printed the warning, warned_at is `failed` at the last warning,
\* recorded is what update_job_status(..., "completed") wrote.
NotRecorded == [successful |-> -1, failed |-> -1, errors |-> -1]

LoopStart ==
    [pc |-> "next", i |-> 0, successful |-> 0, failed |-> 0, errors |-> 0,
     consecutive_detail_failures |-> 0, tag |-> "none", calls |-> <<>>,
     warning |-> FALSE, warned_at |-> 0, recorded |-> NotRecorded]

\* A faulty threshold test that does not reset the counter.
WarnWithoutReset(l) ==
    [l EXCEPT !.pc = "next",
              !.warning = l.consecutive_detail_failures >= PersistentFailureThreshold,
              !.warned_at = IF l.consecutive_detail_failures >= PersistentFailureThreshold
                            THEN l.failed ELSE @]

\* Lines 297-308: the end of the loop body.
AfterItem(l) ==
    IF l.consecutive_detail_failures >= PersistentFailureThreshold
    THEN [l EXCEPT !.pc = "next", !.warning = TRUE, !.warned_at = l.failed,
                   !.consecutive_detail_failures = 0]
    ELSE [l EXCEPT !.pc = "next"]

\* The tag appended to errors, by cause.
TagOf(cause) ==
    CASE cause = "none"       -> "fetch_failed"
      [] cause = "permission" -> "auth_failed"
      [] cause = "store"      -> "storage_failed"
      [] OTHER                -> "detail_error"

\* The three failing branches of the detail fetch (272-276, 278-287, 289-295).
DetailFailed(l, cause) ==
    [l EXCEPT !.failed = @ + 1, !.errors = @ + 1, !.tag = TagOf(cause),
              !.consecutive_detail_failures = @ + 1]

LoopUnchanged ==
    UNCHANGED <<diskVars, storeVars, exportVars, lockObj, keyVars, lockPath, aggVars,
                writer, extraVars>>

\* A faulty loop body that writes to the store without waiting for the fetch.
StoreAtOnce(l, call) ==
    [l EXCEPT !.calls = Append(@, "store"), !.pc = "storing"]

\* The next call of the entry is issued.
IssueCall(l, call) ==
    [l EXCEPT !.calls = Append(@, call),
              !.pc = CASE call = "verify" -> "verifying"
                       [] call = "fetch"  -> "fetching"
                       [] OTHER           -> "storing"]

\* Line 251: has_valid_conversation is called unless force_refetch is set or
\* the entry has no id.
FirstCall(check) == IF check THEN "verify" ELSE "fetch"

\* Lines 246-251 / 255: the next entry of the listing is taken and its first
\* call is issued.
ItemStart(check) ==
    /\ loop.pc = "next"
    /\ loop.i < MaxItems
    /\ loop' = IssueCall([loop EXCEPT !.i = @ + 1, !.tag = "none", !.warning = FALSE,
                                       !.calls = <<>>],
                          FirstCall(check))
    /\ LoopUnchanged

\* has_valid_conversation returns True (252-253), returns False (255), raises
\* PermissionError (278-287: the conversations directory cannot be listed,
\* storage.py 144) or raises another exception (289-295).
VerifyReturns(out) ==
    /\ loop.pc = "verifying"
    /\ loop' = CASE out = "valid" ->
                      [loop EXCEPT !.successful = @ + 1, !.pc = "next"]
                 [] out = "invalid" ->
                      IssueCall(loop, "fetch")
                 [] out = "permission" ->
                      AfterItem(DetailFailed(loop, "permission"))
                 [] OTHER -> AfterItem(DetailFailed(loop, "error"))
    /\ LoopUnchanged

\* fetch_conversation_detail returns the conversation (257-265), returns
\* nothing (272-276), raises PermissionError (278-287) or another exception
\* (289-295).
FetchReturns(out) ==
    /\ loop.pc = "fetching"
    /\ loop' = IF out = "ok"
               THEN IssueCall([loop EXCEPT !.consecutive_detail_failures = 0], "store")
               ELSE AfterItem(DetailFailed(loop, out))
    /\ LoopUnchanged

\* store_conversation returns True (266) or False (268-269).
StoreReturns(ok) ==
    /\ loop.pc = "storing"
    /\ loop' = IF ok
               THEN AfterItem([loop EXCEPT !.successful = @ + 1])
               ELSE AfterItem([loop EXCEPT !.failed = @ + 1, !.errors = @ + 1,
                                           !.tag = TagOf("store")])
    /\ LoopUnchanged

\* The listing is exhausted: update_job_status(job_id, "completed", ...).
LoopEnd ==
    /\ loop.pc = "next"
    /\ loop' = [loop EXCEPT !.pc = "done",
                            !.recorded = [successful |-> loop.successful,
                                          failed |-> loop.failed,
                                          errors |-> loop.errors]]
    /\ LoopUnchanged

(***************************************************************************)
(* fetch_all_conversations, request by request (fetcher.py 86-162), and    *)
(* the total that the completed job records.  Conversations are counted,   *)
(* not named: the remote holds `remote` of them, `all` are collected.      *)
(***************************************************************************)
MAX_RETRIES == 3

\* pc: "idle", "page" (a request of _fetch_batch is outstanding), "returned"
\* (fetch_all_conversations returned), "raised", "completed" (the job row has
\* its total).
IdleListing == [pc |-> "idle", remote |-> 0, all |-> 0, attempt |-> 0, total |-> -1]

ListingUnchanged ==
    UNCHANGED <<diskVars, storeVars, exportVars, lockObj, keyVars, lockPath, aggVars,
                writer, loop, storedOn>>

\* fetch_all_conversations is called while the remote holds n conversations.
ListingStart(n) ==
    /\ listing.pc = "idle"
    /\ listing' = [IdleListing EXCEPT !.pc = "page", !.remote = n]
    /\ ListingUnchanged

\* _fetch_batch after the last 429: the for loop ends and `return [], False`
\* (162); fetch_all_conversations takes the empty batch as the end (107-108).
RetriesExhausted(l) == [l EXCEPT !.pc = "returned"]

\* The response to one request of _fetch_batch(offset, limit), and what
\* fetch_all_conversations does with the batch (101-115).
BatchResponse(resp) ==
    LET batch == IF listing.remote - listing.all < BatchSize
                 THEN listing.remote - listing.all ELSE BatchSize
    IN  /\ listing.pc = "page"
        /\ listing' =
             CASE resp = "200" ->
                    IF batch = 0 THEN [listing EXCEPT !.pc = "returned"]
                    ELSE [listing EXCEPT !.all = @ + batch, !.attempt = 0,
                                         !.pc = IF batch = BatchSize
                                                THEN "page" ELSE "returned"]
               [] resp = "429" ->
                    IF listing.attempt < MAX_RETRIES - 1
                    THEN [listing EXCEPT !.attempt = @ + 1]
                    ELSE RetriesExhausted(listing)
               [] resp = "timeout" ->
                    IF listing.attempt < MAX_RETRIES - 1
                    THEN [listing EXCEPT !.attempt = @ + 1]
                    ELSE [listing EXCEPT !.pc = "raised"]
               [] OTHER -> [listing EXCEPT !.pc = "raised"]
        /\ ListingUnchanged

\* orchestrator.py 228-230, 310-316: total_conversations = len(conversations_list)
\* is what the completed job records.
ListingCompleted ==
    /\ listing.pc = "returned"
    /\ listing' = [listing EXCEPT !.pc = "completed", !.total = listing.all]
    /\ ListingUnchanged

\* The first state of the variables that only some specifications use.
InitExtra ==
    /\ storedOn = [id \in Ids |-> {}]
    /\ listing = IdleListing

(***************************************************************************)
(* Spec: the store and its environment.                                    *)
(***************************************************************************)
\* Records are interchangeable: the first record ever stored is called r1.
FreshRecords == IF nOps = 0 THEN {"r1"} ELSE Records

Init ==
    /\ keyring = None
    /\ manifest = NoManifest
    /\ files = [p \in Paths |-> NoFile]
    /\ dirOrder = <<>>
    /\ today = 1
    /\ store = NoStore
    /\ ctorManifest = NoManifest
    /\ nOps = 0
    /\ lockBackend = "native"
    /\ lockHeld = {}
    /\ ledger = [j \in JobIds |-> NoRow]
    /\ proc = [p \in Procs |-> IdleProc]
    /\ hist = [j \in JobIds |-> NoHist]
    /\ remote = <<>>
    /\ lockObj = [o \in Procs |-> NewLockFile]
    /\ hasKeyring = TRUE
    /\ secretStore = None
    /\ keyFile = None
    /\ keyLog = NoKeyLog
    /\ lockPath = [p \in Procs |-> "A"]
    /\ results = <<>>
    /\ aggregated = NotAggregated
    /\ writer = IdleWriter
    /\ loop = LoopStart
    /\ InitExtra

Next ==
    \/ \E k \in Keys, io \in {"ok", "open", "write", "chmod"} : NewStore(k, io)
    \/ \E k \in Keys : KeyImport(k)
    \/ \E r \in FreshRecords, id \in Ids, io \in StoreFailures :
           StoreConversation(r, id, io)
    \/ NextDay
    \/ \E p \in Paths, v \in Checksums : TamperChecksum(p, v)
    \/ \E p \in Paths, v \in Contents : TamperContent(p, v)
    \/ \E p \in Paths, c \in {Garbage, NonDict} : CorruptFile(p, c)

Spec == Init /\ [][Next]_vars

(***************************************************************************)
(* SpecExport: run_export calls on an archive that earlier runs, key        *)
(* imports and outside modifications have left in one of the states below. *)
(***************************************************************************)
\* The manifest and the wrapper file of abc123 under the first date, as Spec
\* can leave them when the stored key is k1.
InitialArchives ==
    LET w  == StoredObj("k1", "r1", [id |-> "abc123"])
        on(m, f) == [manifest |-> m, file |-> f]
    IN  {on(NoManifest, NoFile),
         on(ManifestFor("k1"), NoFile),
         on(ManifestFor("k1"), w),
         on(ManifestFor("k1"), [w EXCEPT !.checksum = NoSum]),
         on(ManifestFor("k1"), [w EXCEPT !.checksum = BadSum]),
         on(ManifestFor("k1"), [w EXCEPT !.encrypted_content = Junk]),
         on(ManifestFor("k1"), StoredObj("k2", "r1", [id |-> "abc123"])),
         on(ManifestFor("k1"), Garbage),
         on(ManifestFor("k1"), NonDict),
         on(ManifestFor("k2"), StoredObj("k2", "r1", [id |-> "abc123"]))}

\* Where neither fcntl nor msvcrt exists, the calls start on a sound archive.
InitialPlatforms ==
    {[backend |-> "native", archive |-> a] : a \in InitialArchives}
        \cup {[backend |-> "none",
                archive |-> [manifest |-> ManifestFor("k1"),
                             file |-> StoredObj("k1", "r1", [id |-> "abc123"])]]}

InitExport ==
    /\ keyring = "k1"
    /\ \E pl \in InitialPlatforms : LET a == pl.archive IN
           /\ lockBackend = pl.backend
           /\ manifest = a.manifest
           /\ files = [q \in Paths |->
                          IF q = <<1, FileToken("abc123")>> THEN a.file ELSE NoFile]
           /\ dirOrder = IF a.file = NoFile THEN <<>> ELSE <<1>>
    /\ today = 1
    /\ store = NoStore
    /\ ctorManifest = NoManifest
    /\ nOps = 0
    /\ lockHeld = {}
    /\ ledger = [j \in JobIds |-> NoRow]
    /\ proc = [p \in Procs |-> IdleProc]
    /\ hist = [j \in JobIds |-> NoHist]
    /\ remote \in Listings
    /\ lockObj = [o \in Procs |-> NewLockFile]
    /\ hasKeyring = TRUE
    /\ secretStore = "k1"
    /\ keyFile = None
    /\ keyLog = NoKeyLog
    /\ lockPath = [p \in Procs |-> "A"]
    /\ results = <<>>
    /\ aggregated = NotAggregated
    /\ writer = IdleWriter
    /\ loop = LoopStart
    /\ InitExtra

NextExport ==
    \/ \E p \in Procs, j \in {0} \cup JobIds, f \in BOOLEAN : RunExport(p, j, f)
    \/ \E p \in Procs : Acquire(p)
    \/ \E p \in Procs : ResolveJob(p)
    \/ \E p \in Procs, o \in PrepareOutcomes, io \in {"ok", "open", "write", "chmod"} :
           Prepare(p, o, io)
    \/ \E p \in Procs, d \in DetailOutcomes, io \in StoreFailures : ProcessItem(p, d, io)
    \/ \E p \in Procs : Finish(p)
    \/ \E p \in Procs : Interrupt(p)

SpecExport == InitExport /\ [][NextExport]_vars

(***************************************************************************)
(* SpecLedger: two ArchiveOrchestrator objects, each constructed with an   *)
(* archive directory of its own choice.  The lock file is                  *)
(* <archive_dir>/.lock (182); the ledger is JobTracker() with its default  *)
(* path (181, 102), the same for every orchestrator.  Both directories     *)
(* hold a sound manifest and the remote lists nothing, so that the only    *)
(* thing the calls share is the ledger.                                    *)
(***************************************************************************)
ArchiveDirs == {"A", "B"}

InitLedger ==
    /\ keyring = "k1"
    /\ manifest = ManifestFor("k1")
    /\ files = [q \in Paths |-> NoFile]
    /\ dirOrder = <<>>
    /\ today = 1
    /\ store = NoStore
    /\ ctorManifest = NoManifest
    /\ nOps = 0
    /\ lockBackend = "native"
    /\ lockHeld = {}
    /\ ledger = [j \in JobIds |-> NoRow]
    /\ proc = [p \in Procs |-> IdleProc]
    /\ hist = [j \in JobIds |-> NoHist]
    /\ remote = <<>>
    /\ lockObj = [o \in Procs |-> NewLockFile]
    /\ hasKeyring = TRUE
    /\ secretStore = "k1"
    /\ keyFile = None
    /\ keyLog = NoKeyLog
    /\ lockPath \in {f \in [Procs -> ArchiveDirs] : f[1] = "A"}
    /\ results = <<>>
    /\ aggregated = NotAggregated
    /\ writer = IdleWriter
    /\ loop = LoopStart
    /\ InitExtra

NextLedger ==
    \/ \E p \in Procs, j \in {0} \cup JobIds, f \in BOOLEAN : RunExport(p, j, f)
    \/ \E p \in Procs : Acquire(p)
    \/ \E p \in Procs : ResolveJob(p)
    \/ \E p \in Procs, o \in PrepareOutcomes : Prepare(p, o, "ok")
    \/ \E p \in Procs : Finish(p)
    \/ \E p \in Procs : Interrupt(p)

SpecLedger == InitLedger /\ [][NextLedger]_vars

(***************************************************************************)
(* SpecLock: LockFile objects on one lock path, one per caller, in any     *)
(* order of acquire and release calls.                                     *)
(***************************************************************************)
InitLock ==
    /\ keyring = None
    /\ manifest = NoManifest
    /\ files = [p \in Paths |-> NoFile]
    /\ dirOrder = <<>>
    /\ today = 1
    /\ store = NoStore
    /\ ctorManifest = NoManifest
    /\ nOps = 0
    /\ lockBackend \in {"native", "none"}
    /\ lockHeld = {}
    /\ ledger = [j \in JobIds |-> NoRow]
    /\ proc = [p \in Procs |-> IdleProc]
    /\ hist = [j \in JobIds |-> NoHist]
    /\ remote = <<>>
    /\ lockObj = [o \in Procs |-> NewLockFile]
    /\ hasKeyring = TRUE
    /\ secretStore = None
    /\ keyFile = None
    /\ keyLog = NoKeyLog
    /\ lockPath = [p \in Procs |-> "A"]
    /\ results = <<>>
    /\ aggregated = NotAggregated
    /\ writer = IdleWriter
    /\ loop = LoopStart
    /\ InitExtra

NextLock ==
    \/ \E o \in Procs, io \in AcquireIO : LockAcquire(o, io)
    \/ \E o \in Procs : LockReleaseCall(o)

SpecLock == InitLock /\ [][NextLock]_vars

(***************************************************************************)
(* SpecKey: get_or_create_key calls, starting from any content of the      *)
(* credential manager entry and of the key file; nothing else writes them. *)
(***************************************************************************)
InitKey ==
    /\ keyring = None
    /\ manifest = NoManifest
    /\ files = [p \in Paths |-> NoFile]
    /\ dirOrder = <<>>
    /\ today = 1
    /\ store = NoStore
    /\ ctorManifest = NoManifest
    /\ nOps = 0
    /\ lockBackend = "native"
    /\ lockHeld = {}
    /\ ledger = [j \in JobIds |-> NoRow]
    /\ proc = [p \in Procs |-> IdleProc]
    /\ hist = [j \in JobIds |-> NoHist]
    /\ remote = <<>>
    /\ lockObj = [o \in Procs |-> NewLockFile]
    /\ hasKeyring \in BOOLEAN
    /\ secretStore \in IF hasKeyring THEN KeyMaterial ELSE {None}
    /\ keyFile \in KeyMaterial
    /\ keyLog = NoKeyLog
    /\ lockPath = [p \in Procs |-> "A"]
    /\ results = <<>>
    /\ aggregated = NotAggregated
    /\ writer = IdleWriter
    /\ loop = LoopStart
    /\ InitExtra

NextKey ==
    \E new \in Keys, kio \in KeyringIO, fio \in KeyFileIO :
        GetOrCreateKeyCall(new, kio, fio)

SpecKey == InitKey /\ [][NextKey]_vars

(***************************************************************************)
(* SpecWrite: store_conversation calls of one store object, taken step by  *)
(* step; every state is one a concurrent reader may observe.               *)
(***************************************************************************)
NextWrite ==
    \/ \E k \in Keys, io \in {"ok", "open", "write", "chmod"} : NewStore(k, io)
    \/ \E r \in FreshRecords, id \in Ids : StoreBegin(r, id)
    \/ StoreOpen
    \/ StoreWritePart
    \/ StoreClose
    \/ StoreAbort
    \/ NextDay

SpecWrite == Init /\ [][NextWrite]_vars

(***************************************************************************)
(* SpecManifest: constructions of the store on archives whose manifest is  *)
(* in any of the states a constructor may find.                            *)
(***************************************************************************)
NextManifest ==
    \/ \E k \in Keys, io \in {"ok", "open", "write", "chmod"} : NewStore(k, io)
    \/ \E k \in Keys : KeyImport(k)
    \/ \E m \in ManifestFiles : EditManifest(m)

SpecManifest == Init /\ [][NextManifest]_vars

(***************************************************************************)
(* SpecLoop: the item loop of one run_export call over a listing of up to  *)
(* MaxItems entries, every call returning each of its outcomes.            *)
(***************************************************************************)
NextLoop ==
    \/ \E check \in BOOLEAN : ItemStart(check)
    \/ \E out \in {"valid", "invalid", "permission", "raise"} : VerifyReturns(out)
    \/ \E out \in {"ok", "none", "permission", "error"} : FetchReturns(out)
    \/ \E ok \in BOOLEAN : StoreReturns(ok)
    \/ LoopEnd

SpecLoop == Init /\ [][NextLoop]_vars

(***************************************************************************)
(* SpecDates: successful store_conversation calls of store objects over    *)
(* two UTC days.                                                           *)
(***************************************************************************)
NextDates ==
    \/ \E k \in Keys : NewStore(k, "ok")
    \/ \E r \in Records, id \in Ids : StoreOnDay(r, id)
    \/ NextDay

SpecDates == Init /\ [][NextDates]_vars

(***************************************************************************)
(* SpecListing: one listing of a remote of up to MaxRemote conversations,  *)
(* every request answered in each of the ways _fetch_batch distinguishes.  *)
(***************************************************************************)
NextListing ==
    \/ \E n \in 0..MaxRemote : ListingStart(n)
    \/ \E resp \in {"200", "429", "timeout", "401", "error"} : BatchResponse(resp)
    \/ ListingCompleted

SpecListing == Init /\ [][NextListing]_vars

(***************************************************************************)
(* SpecRotate: an archive that is written, modified from outside and then  *)
(* rotated to another key.                                                 *)
(***************************************************************************)
NextRotate ==
    \/ \E k \in Keys : NewStore(k, "ok")
    \/ \E k \in Keys : KeyImport(k)
    \/ \E r \in FreshRecords, id \in Ids : StoreConversation(r, id, "ok")
    \/ \E p \in Paths, v \in Checksums : TamperChecksum(p, v)
    \/ \E old \in Keys, new \in Keys : RotateKey(old, new)

SpecRotate == Init /\ [][NextRotate]_vars

(***************************************************************************)
(* SpecAggregate: one aggregate_validator_results call on up to MaxResults *)
(* results.                                                                *)
(***************************************************************************)
InitAggregate ==
    /\ keyring = None
    /\ manifest = NoManifest
    /\ files = [p \in Paths |-> NoFile]
    /\ dirOrder = <<>>
    /\ today = 1
    /\ store = NoStore
    /\ ctorManifest = NoManifest
    /\ nOps = 0
    /\ lockBackend = "native"
    /\ lockHeld = {}
    /\ ledger = [j \in JobIds |-> NoRow]
    /\ proc = [p \in Procs |-> IdleProc]
    /\ hist = [j \in JobIds |-> NoHist]
    /\ remote = <<>>
    /\ lockObj = [o \in Procs |-> NewLockFile]
    /\ hasKeyring = TRUE
    /\ secretStore = None
    /\ keyFile = None
    /\ keyLog = NoKeyLog
    /\ lockPath = [p \in Procs |-> "A"]
    /\ results = <<>>
    /\ aggregated = NotAggregated
    /\ writer = IdleWriter
    /\ loop = LoopStart
    /\ InitExtra

NextAggregate ==
    \/ \E sev \in SeverityLabels : AddResult(sev)
    \/ Aggregate

SpecAggregate == InitAggregate /\ [][NextAggregate]_vars

(***************************************************************************)
(* Properties of the store (of Spec).                                      *)
(***************************************************************************)
AllIds == Ids \cup {"unknown"}

\* The store object was constructed with a key whose fingerprint differs from
\* the one recorded in the manifest that existed then.
Poisoned ==
    /\ store.open
    /\ ctorManifest.kind = "json"
    /\ ctorManifest.key_fingerprint # NoFingerprint
    /\ ctorManifest.key_fingerprint # Fingerprint(store.key)

\* The wrapper file store_conversation of key k writes for (r, id).
IsStoredBy(k, p) ==
    \E r \in Records, id \in Ids :
        /\ p[2] = FileToken(id)
        /\ files[p] = StoredObj(k, r, [id |-> id])

\* C1: a store constructed with a key whose fingerprint differs from the one in
\* the existing manifest answers, for its whole lifetime and for every
\* identifier, verify_conversation with UNREADABLE / WRONG_KEY_MANIFEST_MISMATCH
\* and retrieve_conversation with None.
C1_PoisonedStoreFailsClosed ==
    Poisoned =>
        \A id \in AllIds :
            /\ VerifyConversation(store, id).state = "UNREADABLE"
            /\ VerifyConversation(store, id).error_code = "WRONG_KEY_MANIFEST_MISMATCH"
            /\ RetrieveConversation(store, id) = None

\* A poisoned store beside a wrapper that the key of the manifest wrote and that
\* nothing has touched since.
C1_Witness ==
    /\ Poisoned
    /\ \E p \in Paths, k \in Keys :
           /\ ctorManifest.key_fingerprint = Fingerprint(k)
           /\ IsStoredBy(k, p)

\* C2: retrieve_conversation returns a record only when verify_conversation on
\* the same state is VALID, and returns None whenever verify_conversation is
\* CORRUPT, UNREADABLE, MISSING or UNKNOWN.
C2_RetrieveOnlyIfValid ==
    store.open =>
        \A id \in AllIds :
            /\ RetrieveConversation(store, id) \notin {None, Raised}
                   => VerifyConversation(store, id).state = "VALID"
            /\ VerifyConversation(store, id).state
                       \in {"CORRUPT", "UNREADABLE", "MISSING", "UNKNOWN"}
                   => RetrieveConversation(store, id) = None

\* One identifier is retrieved while the wrapper of another one, which decrypts
\* under the key of the store, is refused.
C2_Witness ==
    /\ store.open
    /\ \E id \in Ids : RetrieveConversation(store, id) \in Records
    /\ \E id \in Ids :
           /\ VerifyConversation(store, id).state = "CORRUPT"
           /\ RetrieveConversation(store, id) = None

\* The store object is bound to the key of the manifest.
Healthy == store.open /\ ~store.key_mismatch

\* Every file of the archive is a wrapper that store_conversation of the key of
\* the store wrote: the archive is the work of earlier store operations only.
Pristine == \A p \in Paths : files[p].kind # "nofile" => IsStoredBy(store.key, p)

\* The wrapper file of id under the latest date directory that holds one, which
\* in a pristine archive is the one the last successful store of id wrote.
LatestWrapper(id) ==
    LET days == {d \in Days : files[<<d, FileToken(id)>>].kind = "wrapper"}
    IN  IF days = {} THEN NoPath
        ELSE <<CHOOSE d \in days : \A e \in days : e <= d, FileToken(id)>>

\* C3: round trip.  In an archive made by earlier store operations of a store
\* whose key matches the manifest, a store_conversation(r, m) that returns True
\* is followed by a retrieve_conversation(id) that returns r.
C3_RoundTrip ==
    [][\A r \in Records, id \in Ids :
          (Healthy /\ Pristine /\ StoreConversation(r, id, "ok"))
              => RetrieveConversation(store, id)' = r]_vars

\* C4: tamper detection.  After a successful store of id, replacing the checksum
\* field of the wrapper by any other value makes verify_conversation(id) return
\* CORRUPT with CHECKSUM_MISMATCH.
C4_TamperDetection ==
    [][\A id \in Ids, v \in Checksums :
          (Healthy /\ Pristine /\ LatestWrapper(id) # NoPath
                   /\ TamperChecksum(LatestWrapper(id), v))
              => /\ VerifyConversation(store, id)'.state = "CORRUPT"
                 /\ VerifyConversation(store, id)'.error_code = "CHECKSUM_MISMATCH"]_vars

\* C5: every VALID result of verify_conversation has expected_checksum equal to
\* actual_checksum, whatever the wrapper file contains.
C5_ValidMeansChecksumEqual ==
    store.open =>
        \A id \in AllIds :
            VerifyConversation(store, id).state = "VALID"
                => VerifyConversation(store, id).expected_checksum
                       = VerifyConversation(store, id).actual_checksum

\* C6: ciphertext corruption.  After a successful store of id, emptying,
\* truncating or randomizing the encrypted_content field of the wrapper makes
\* verify_conversation(id) return UNREADABLE.
C6_CiphertextCorruption ==
    [][\A id \in Ids, v \in {NoContent, BadB64, Junk} :
          (Healthy /\ Pristine /\ LatestWrapper(id) # NoPath
                   /\ TamperContent(LatestWrapper(id), v))
              => VerifyConversation(store, id)'.state = "UNREADABLE"]_vars

(***************************************************************************)
(* Properties of run_export (of SpecExport).                               *)
(***************************************************************************)
\* Caller p is inside the locked section of run_export.
InLocked(p) == proc[p].pc \in {"resolve", "prepare", "loop"}

\* Caller p takes a step.
Steps(p) == proc'[p] # proc[p]

\* At no time are two run_export calls inside the locked section together.
MutualExclusion == \A p, q \in Procs : p # q => ~(InLocked(p) /\ InLocked(q))

\* A caller that has not acquired the lock writes no ledger row, no wrapper file
\* and no manifest, and gives up with the lock error exactly when an attempt
\* fails after the timeout has elapsed.
WaitingIsHarmless ==
    \A p \in Procs :
        (proc[p].pc \in {"idle", "acquire"} /\ Steps(p))
            => /\ proc'[p].pc # "resolve" => UNCHANGED <<ledger, files, manifest, dirOrder>>
               /\ proc'[p].pc = "done"
                      <=> (~LockGranted(p) /\ proc[p].polls >= MaxPolls)
               /\ proc'[p].pc = "done" => proc'[p].result = "lock_error"

C8_LockReleasedOnExit ==
    \A p, q \in Procs :
        proc[p].pc = "done"
            => /\ p \notin lockHeld
               /\ ~proc[p].lock_acquired
               /\ (q # p /\ proc[q].pc = "acquire") => LockGranted(q)

\* A call was interrupted in the item loop and the other call holds the lock
\* after it.
C8_Witness ==
    /\ lockBackend = "native"
    /\ \E p, q \in Procs :
           /\ proc[p].result = "interrupted"
           /\ \E j \in JobIds : hist[j].interrupted = "between"
           /\ InLocked(q) /\ q \in lockHeld

\* C9: for each listed identifier X, a detail fetch is issued if and only if
\* force_refetch is set or the verification of X is not VALID; a VALID record
\* without force_refetch costs no fetch and no store write and counts as
\* successful.  (Stated for entries that carry an identifier.)
C9_IdempotentSkip ==
    [][\A p \in Procs :
          LET pr    == proc[p]
              x     == pr.list[pr.i + 1]
              valid == HasValidConversation(pr.st, x) = "True"
          IN  (pr.pc = "loop" /\ pr.i < Len(pr.list) /\ Steps(p)
                   /\ proc'[p].pc = "loop" /\ x # "unknown")
                  => /\ proc'[p].last.fetched <=> (pr.force_refetch \/ ~valid)
                     /\ (valid /\ ~pr.force_refetch)
                            => /\ ~proc'[p].last.stored
                               /\ proc'[p].successful = pr.successful + 1]_vars

\* C10: after an interruption between two entries and a resume that finishes,
\* the ledger holds the single row of the job, successful + failed = total, and
\* the counters are the sum of what both invocations counted.  (Stated where the
\* lock is exclusive, so that the resume runs after the interrupted call.)
C10_Resumability ==
    \A j \in JobIds :
        (lockBackend = "native" /\ hist[j].interrupted = "between"
                /\ hist[j].resumed /\ ledger[j].status = "completed")
            => /\ \A k \in JobIds \ {j} : ledger[k] = NoRow
               /\ ledger[j].successful + ledger[j].failed = ledger[j].total
               /\ ledger[j].successful = hist[j].successful
               /\ ledger[j].failed = hist[j].failed

\* run_export without unfair starvation of a caller that polls for the lock.
FairSpecExport == SpecExport /\ \A p \in Procs : WF_vars(Acquire(p))

\* The moves of a job status that the state machine allows; job resolution
\* creates the row (pending) and marks it in_progress in one step.
AllowedStatusMoves ==
    {<<"absent", "in_progress">>, <<"in_progress", "completed">>,
     <<"in_progress", "failed">>}

\* C11: the status of a job row only moves pending -> in_progress -> completed
\* or failed; completed and failed are terminal, also under a resume.  (Stated
\* where the lock is exclusive.)
C11_JobStatusMachine ==
    [][\A j \in JobIds :
          (lockBackend = "native" /\ ledger'[j].status # ledger[j].status)
              => <<ledger[j].status, ledger'[j].status>> \in AllowedStatusMoves]_vars

\* C12: whatever the wrapper files contain, verify_conversation returns one of
\* the five integrity states and retrieve_conversation returns a record or
\* None; neither raises.
C12_IntegrityNeverThrown ==
    store.open =>
        \A id \in AllIds :
            /\ VerifyConversation(store, id).state
                   \in {"VALID", "CORRUPT", "UNREADABLE", "MISSING", "UNKNOWN"}
            /\ RetrieveConversation(store, id) # Raised

ManifestIO == {"ok", "open", "write", "chmod"}

\* C13: when the health check reports a non-OK status, run_export marks the job
\* failed with an error recorded, returns the job id without raising, and has
\* made no listing call, no detail fetch and no wrapper write.
C13_UnhealthyRemote ==
    [][\A p \in Procs, io \in ManifestIO :
          Prepare(p, "unhealthy", io)
              => LET j == proc[p].job_id
                 IN  /\ ledger'[j].status = "failed"
                     /\ ledger'[j].errors = 1
                     /\ proc'[p].pc = "done" /\ proc'[p].result = "returned"
                     /\ proc[p].list = <<>> /\ proc'[p].list = <<>>
                     /\ proc[p].last = NoItem /\ proc'[p].last = NoItem
                     /\ UNCHANGED <<files, dirOrder>>]_vars

\* The only call made so far has returned and its job is failed: the health
\* check was not OK.
C13_Witness ==
    /\ proc[1].pc = "done" /\ proc[1].result = "returned"
    /\ proc[2].pc = "idle"
    /\ ledger[1].status = "failed" /\ ledger[1].errors = 1
    /\ ledger[2] = NoRow

\* Caller p is in the item loop: the health check and the listing succeeded.
InLoop(p) == proc[p].pc = "loop"

\* C14: once the health check and the listing have succeeded, every listed
\* entry is processed whatever its skip test, detail fetch and store do, each
\* is counted exactly once as successful or failed, and the job ends completed
\* with successful + failed = total = the number of listed entries, the call
\* returning the job id.  (An interrupt is not a per-item failure.)
C14_ItemFailuresNotFatal ==
    /\ [](\A p \in Procs :
            InLoop(p) => /\ proc[p].list = remote
                         /\ proc[p].successful + proc[p].failed = proc[p].i
                         /\ proc[p].i <= Len(remote))
    /\ [][\A p \in Procs :
            (InLoop(p) /\ Steps(p) /\ proc'[p].result # "interrupted")
                => IF proc[p].i < Len(proc[p].list)
                   THEN /\ InLoop(p)'
                        /\ proc'[p].i = proc[p].i + 1
                        /\ proc'[p].last.id = proc[p].list[proc[p].i + 1]
                        /\ UNCHANGED ledger
                   ELSE LET row == ledger'[proc[p].job_id]
                        IN  /\ proc'[p].pc = "done" /\ proc'[p].result = "returned"
                            /\ row.status = "completed"
                            /\ row.total = Len(remote)
                            /\ row.successful + row.failed = row.total
                            /\ row.successful = proc[p].successful
                            /\ row.failed = proc[p].failed]_vars

\* The only call made so far has returned; its job is completed with two
\* entries listed, one of them failed.
C14_Witness ==
    /\ proc[1].pc = "done" /\ proc[1].result = "returned"
    /\ proc[2].pc = "idle"
    /\ ledger[1].status = "completed"
    /\ ledger[1].total = 2 /\ ledger[1].successful = 1 /\ ledger[1].failed = 1

\* C15: when no token is available, the store constructor raises, the token
\* validation fails or the listing raises, the job ends failed with the
\* exception recorded in errors, the exception is raised to the caller, and the
\* lock is released.
C15_OrchestratorException ==
    [][\A p \in Procs, io \in ManifestIO,
          o \in {"no_token", "store_error", "bad_token", "list_error"} :
          Prepare(p, o, io)
              => LET j == proc[p].job_id
                 IN  /\ ledger'[j].status = "failed"
                     /\ ledger'[j].errors = 1
                     /\ ledger'[j].completed_at
                     /\ proc'[p].pc = "done" /\ proc'[p].result = "raised"
                     /\ ~proc'[p].lock_acquired
                     /\ p \notin lockHeld'
                     /\ UNCHANGED <<files, dirOrder>>]_vars

\* The only call made so far has raised after its job was marked in_progress:
\* the job is failed and the lock is free.
C15_Witness ==
    /\ lockBackend = "native"
    /\ proc[1].pc = "done" /\ proc[1].result = "raised"
    /\ proc[2].pc = "idle"
    /\ ledger[1].status = "failed" /\ ledger[1].errors = 1
    /\ lockHeld = {}

\* C16: store_conversation never raises; it returns False when serialization,
\* encryption, mkdir or the write fails, and True only after the wrapper file
\* has been written completely.
C16_StoreNeverRaises ==
    [][\A r \in Records, id \in Ids, io \in StoreFailures :
          StoreConversation(r, id, io)
              => /\ StoreResult(io) \in {"True", "False"}
                 /\ io \in {"early", "write"} => StoreResult(io) = "False"
                 /\ StoreResult(io) = "True"
                        => files'[WrapperPathFor(id, today)]
                               = StoredObj(store.key, r, [id |-> id])
                 /\ files'[WrapperPathFor(id, today)].kind # "wrapper"
                        => StoreResult(io) = "False"]_vars

\* The first operation on the archive was a store_conversation whose write
\* failed half-way: it left a truncated wrapper file.
C16_Witness ==
    /\ store.open
    /\ nOps = 1
    /\ \E p \in Paths : files[p] = Garbage

\* The identifiers that have a row in the jobs table.
Rows(led) == {j \in JobIds : led[j] # NoRow}

\* Caller p creates a job in this step (run_export without resume_job_id).
Creates(p) ==
    proc[p].pc = "resolve" /\ proc[p].resume_job_id = 0 /\ proc'[p].pc = "prepare"

\* C17: the job ledger is append-only.  create_job adds exactly one row, under
\* an identifier no existing row has, with status pending and zero counters,
\* and leaves every other row as it was; no operation removes a row, and no
\* other operation adds one.
C17_LedgerAppendOnly ==
    /\ [](Rows(ledger) # JobIds
            => LET j == NewJobId(ledger)
               IN  /\ j \notin Rows(ledger)
                   /\ Rows(CreateJob(ledger)) = Rows(ledger) \cup {j}
                   /\ CreateJob(ledger)[j] = [NoRow EXCEPT !.status = "pending"]
                   /\ \A k \in JobIds \ {j} : CreateJob(ledger)[k] = ledger[k])
    /\ [][Rows(ledger) \subseteq Rows(ledger')]_vars
    /\ [][\A p \in Procs :
            Creates(p) => /\ proc'[p].job_id \notin Rows(ledger)
                          /\ Rows(ledger') = Rows(ledger) \cup {proc'[p].job_id}
                          /\ \A k \in Rows(ledger) : ledger'[k] = ledger[k]]_vars
    /\ [][Rows(ledger') # Rows(ledger) => \E p \in Procs : Creates(p)]_vars

\* A second job was created after the first one had completed with a failed
\* entry: both rows are in the ledger.
C17_Witness ==
    /\ Rows(ledger) = JobIds
    /\ ledger[1].status = "completed" /\ ledger[1].failed > 0
    /\ ledger[2].status = "in_progress"

\* C18: release is safe in every state of the object (never acquired, after a
\* failed acquire, holding the lock, already released): it returns, leaves the
\* object not holding the lock, changes nothing when the object did not hold
\* it, and never takes the lock away from another holder.
C18_ReleaseIdempotent ==
    /\ [](\A o \in Procs : o \in lockHeld => lockObj[o].lock_acquired)
    /\ [][\A o \in Procs :
            LockReleaseCall(o)
                => /\ ~lockObj'[o].lock_acquired
                   /\ lockObj'[o].lock_file = None
                   /\ lockObj'[o].last = "released"
                   /\ o \notin lockHeld'
                   /\ lockHeld' \ {o} = lockHeld \ {o}
                   /\ ~lockObj[o].lock_acquired => lockHeld' = lockHeld]_vars

\* One object holds the lock while release has been called on another object
\* whose acquire had failed.
C18_Witness ==
    \E o, q \in Procs :
        /\ o # q
        /\ lockObj[o].lock_acquired /\ o \in lockHeld
        /\ lockObj[q].prev = "failed" /\ lockObj[q].last = "released"

\* C19: a stored value that does not parse as a key is never overwritten by
\* get_or_create_key with a newly generated key.
C19_NoSubstitution ==
    [][/\ secretStore = Garbled => secretStore' = Garbled
       /\ keyFile = Garbled => keyFile' = Garbled]_vars

\* C20: every get_or_create_key call that returns yields a valid key, the key
\* an earlier returning call yielded; a key is generated only when neither
\* the credential manager nor the key file holds a valid one, and it is then
\* persisted by one write, to the credential manager when that write succeeds
\* and to the key file otherwise.
C20_CreateOnce ==
    [][LET r == keyLog'.result
       IN  /\ r # Raised => r \in Keys
           /\ (r # Raised /\ keyLog.last # None) => r = keyLog.last
           /\ keyLog'.generated
                  => secretStore \notin Keys /\ keyFile \notin Keys
           /\ ~keyLog'.generated
                  => /\ UNCHANGED <<secretStore, keyFile>>
                     /\ r # Raised => r \in {secretStore, keyFile}
           /\ secretStore' # secretStore => keyFile' = keyFile
           /\ keyFile' # keyFile => secretStore' = secretStore
           /\ (r # Raised /\ keyLog'.generated)
                  => \/ secretStore' = r /\ keyFile' = keyFile
                     \/ keyFile' = r /\ secretStore' = secretStore
           /\ (keyLog'.generated /\ keyFile' # keyFile)
                  => ~hasKeyring \/ secretStore' = secretStore]_vars

\* A call generated a key after the write to the credential manager had
\* failed, stored it in the key file, and a later call returned it again.
C20_Witness ==
    /\ hasKeyring
    /\ secretStore \notin Keys
    /\ keyFile \in Keys
    /\ keyLog.created = keyFile
    /\ keyLog.result = keyFile
    /\ ~keyLog.generated

\* C21: every write to the job ledger is made by a run_export call that holds
\* a lock which keeps every other run_export call out of its locked section,
\* whatever archive directories the orchestrators were constructed with.
C21_LedgerSingleWriter ==
    [][ledger' # ledger
          => \E p \in Procs :
                 /\ Steps(p) /\ InLocked(p)
                 /\ \A q \in Procs \ {p} : ~InLocked(q)]_vars

\* C22: a job is in_progress only while a run_export call is working on it:
\* once the call has ended in any way, an interrupt included, the job is not
\* left in_progress.  (Stated where the lock is exclusive.)
C22_NoStrandedJob ==
    lockBackend = "native"
        => \A j \in JobIds :
               ledger[j].status = "in_progress"
                   => \E p \in Procs : InLocked(p) /\ proc[p].job_id = j

\* The number of results whose severity, extracted, is sev.
CountOf(sev) ==
    Cardinality({i \in 1..Len(results) : ExtractSeverity(results[i]) = sev})

\* The penalty by definition: 25 per critical, 10 per high, 3 per medium, 1
\* per low and 3 per result of any other severity.
PenaltyOf ==
    25 * CountOf("critical") + 10 * CountOf("high") + 3 * CountOf("medium")
        + CountOf("low") + 3 * CountOf("custom")

\* C23: hygiene_score = max(0, 100 - sum of the severity weights), within
\* 0..100; the rating follows the thresholds 90 / 70 / 40; severity_counts
\* counts each result exactly once; no results give 100 and clean.
C23_HygieneScore ==
    aggregated # NotAggregated
        => LET score == aggregated.hygiene_score
               counts == aggregated.severity_counts
           IN  /\ score = (IF PenaltyOf >= 100 THEN 0 ELSE 100 - PenaltyOf)
               /\ score \in 0..100
               /\ aggregated.rating = "clean" <=> score >= 90
               /\ aggregated.rating = "needs_attention" <=> (70 <= score /\ score < 90)
               /\ aggregated.rating = "high_risk" <=> (40 <= score /\ score < 70)
               /\ aggregated.rating = "unsafe" <=> score < 40
               /\ \A k \in DOMAIN counts : counts[k] = CountOf(k)
               /\ \A i \in 1..Len(results) : ExtractSeverity(results[i]) \in DOMAIN counts
               /\ results = <<>> => score = 100 /\ aggregated.rating = "clean"

\* Five findings, an unrecognized severity among them, whose penalty exceeds
\* 100: the score is clamped to 0.
C23_Witness ==
    /\ aggregated # NotAggregated
    /\ aggregated.total_penalty > 100
    /\ aggregated.hygiene_score = 0
    /\ \E i \in 1..Len(results) : results[i] = "custom"

\* The state the precedence order gives for a located wrapper file f and a
\* store object st that is not poisoned.
StateOfWrapper(st, f) ==
    IF f.kind # "wrapper" THEN "UNKNOWN"
    ELSE IF ~(f.encrypted_content.kind = "token" /\ f.encrypted_content.key = st.key)
    THEN "UNREADABLE"
    ELSE IF Sha256(f.encrypted_content.plain) # f.checksum THEN "CORRUPT"
    ELSE "VALID"

\* The reference function: poisoned store, else no wrapper located, else the
\* state of the located wrapper.
VerifyReference(st, id) ==
    IF st.key_mismatch THEN "UNREADABLE"
    ELSE IF FindWrapperPath(id) \in {NoPath, RaisedPath} THEN "MISSING"
    ELSE StateOfWrapper(st, files[FindWrapperPath(id)])

\* C24: verify_conversation decides in the precedence order poisoned store ->
\* UNREADABLE, no wrapper located -> MISSING, wrapper not loadable -> UNKNOWN,
\* ciphertext not decodable or decryptable -> UNREADABLE, recomputed hash
\* differs from the stored checksum -> CORRUPT, else VALID.
C24_VerifyPrecedence ==
    store.open =>
        \A id \in AllIds :
            VerifyConversation(store, id).state = VerifyReference(store, id)

\* The state each error code belongs to.
StateOfCode(code) ==
    CASE code = "NOT_FOUND" -> "MISSING"
      [] code = "CHECKSUM_MISMATCH" -> "CORRUPT"
      [] code \in {"WRONG_KEY_MANIFEST_MISMATCH", "WRAPPER_NO_CONTENT",
                   "WRAPPER_B64_DECODE_FAIL", "DECRYPT_INVALID_TOKEN",
                   "DECRYPT_FAIL"} -> "UNREADABLE"
      [] code = "WRAPPER_LOAD_FAIL" -> "UNKNOWN"
      [] OTHER -> "no state"

\* C25: every result verify_conversation returns that is not VALID carries an
\* error code, each code goes with its one state, and a VALID result carries
\* none.
C25_ErrorCodes ==
    store.open =>
        \A id \in AllIds :
            LET r == VerifyConversation(store, id)
            IN  r.state # Raised
                    => /\ r.state = "VALID" <=> r.error_code = None
                       /\ r.error_code # None => r.state = StateOfCode(r.error_code)

\* One store answers with three different codes: for a wrapper with a tampered
\* checksum, for an absent identifier and for a wrapper with unusable
\* ciphertext.
C25_Witness ==
    /\ store.open
    /\ \E id \in AllIds : VerifyConversation(store, id).error_code = "CHECKSUM_MISMATCH"
    /\ \E id \in AllIds : VerifyConversation(store, id).error_code = "NOT_FOUND"
    /\ \E id \in AllIds :
           VerifyConversation(store, id).error_code
               \in {"WRAPPER_NO_CONTENT", "WRAPPER_B64_DECODE_FAIL", "DECRYPT_INVALID_TOKEN"}

\* The write of the wrapper file of `writer` is under way.
WriteIncomplete == writer.pc \in {"opened", "writing"}

\* C26: a verify_conversation or retrieve_conversation that finds the wrapper
\* file at any point of its write returns without raising; for a file that is
\* empty or partially written it reports MISSING, UNKNOWN or UNREADABLE, and
\* retrieve_conversation returns None, never VALID or content.
C26_PartialWriteTolerance ==
    store.open =>
        \A id \in AllIds :
            LET r    == VerifyConversation(store, id)
                path == FindWrapperPath(id)
            IN  /\ r.state # Raised
                /\ RetrieveConversation(store, id) # Raised
                /\ (path \in Paths /\ files[path].kind # "wrapper")
                       => /\ r.state \in {"MISSING", "UNKNOWN", "UNREADABLE"}
                          /\ RetrieveConversation(store, id) = None
                /\ (WriteIncomplete /\ id = writer.id /\ path = WriterPath)
                       => /\ r.state \in {"MISSING", "UNKNOWN", "UNREADABLE"}
                          /\ RetrieveConversation(store, id) = None

\* A sound store reads the identifier whose wrapper file is half written by the
\* second store_conversation call, and answers UNKNOWN.
C26_Witness ==
    /\ store.open /\ ~store.key_mismatch
    /\ writer.pc = "writing"
    /\ nOps = 2
    /\ FindWrapperPath(writer.id) = WriterPath
    /\ files[WriterPath].kind = "partial"
    /\ VerifyConversation(store, writer.id).state = "UNKNOWN"

\* C27: a construction on an archive without a manifest writes a manifest
\* that records the fingerprint of the current key; a construction on an
\* archive with a manifest leaves the manifest as it is; and the constructed
\* store allows reads only if the manifest exists, is readable and records the
\* fingerprint of the current key.
C27_ManifestBinding ==
    [][\A k \in Keys, io \in {"ok", "open", "write", "chmod"} :
          NewStore(k, io) =>
              /\ (manifest.kind = "nofile" /\ io = "ok") => manifest' = ManifestFor(k)
              /\ manifest.kind # "nofile" => manifest' = manifest
              /\ ~store'.key_mismatch =>
                     /\ manifest'.kind = "json"
                     /\ manifest'.key_fingerprint = Fingerprint(k)]_vars

\* The step is the return of a detail fetch that failed.
FetchFails == \E out \in {"none", "permission", "error"} : FetchReturns(out)

\* C28: the counter of consecutive detail-fetch failures grows by one with
\* each failed detail fetch and is zero after each successful one; the warning
\* is printed exactly by the entry that brings the counter to 25, and the
\* counter is zero after it; the counter is below 25 at the top of the loop
\* and during every call, and two warnings are at least 25 failures apart.
C28_ConsecutiveFailureWarning ==
    /\ [](loop.consecutive_detail_failures \in 0 .. (PersistentFailureThreshold - 1))
    /\ [][/\ FetchFails =>
                 /\ loop'.warning = (loop.consecutive_detail_failures + 1
                                         = PersistentFailureThreshold)
                 /\ loop'.consecutive_detail_failures =
                        IF loop'.warning THEN 0
                        ELSE loop.consecutive_detail_failures + 1
                 /\ loop'.warning => loop'.failed - loop.warned_at
                                         >= PersistentFailureThreshold
          /\ FetchReturns("ok") =>
                 /\ loop'.consecutive_detail_failures = 0
                 /\ ~loop'.warning
          /\ (\E ok \in BOOLEAN : StoreReturns(ok)) =>
                 /\ loop'.consecutive_detail_failures = 0
                 /\ ~loop'.warning
          /\ (VerifyReturns("valid") \/ VerifyReturns("invalid")) =>
                 /\ loop'.consecutive_detail_failures = loop.consecutive_detail_failures
                 /\ ~loop'.warning]_vars

\* The second warning of a run: the entries failed without a successful fetch
\* between them, and the counter is back at zero.
C28_Witness ==
    /\ loop.warning
    /\ loop.warned_at = 2 * PersistentFailureThreshold
    /\ loop.consecutive_detail_failures = 0
    /\ loop.tag = "fetch_failed"

\* C29: every entry counted as failed appends one tag to the error list and
\* every entry counted as successful appends none, so the recorded errors are
\* as many as the recorded failures; the tag is fetch_failed when the detail
\* fetch returned nothing, auth_failed when the detail fetch raised a
\* permission error, storage_failed when the store returned false, and
\* detail_error for any other exception.
C29_ErrorClassification ==
    /\ [](loop.errors = loop.failed)
    /\ [](loop.pc = "done" => loop.recorded.errors = loop.recorded.failed)
    /\ [][/\ loop'.successful = loop.successful + 1 =>
                 /\ loop'.errors = loop.errors
                 /\ loop'.tag = "none"
          /\ FetchReturns("none") => loop'.tag = "fetch_failed"
          /\ FetchReturns("permission") => loop'.tag = "auth_failed"
          /\ StoreReturns(FALSE) => loop'.tag = "storage_failed"
          /\ (FetchReturns("error") \/ VerifyReturns("raise")
                  \/ VerifyReturns("permission")) => loop'.tag = "detail_error"]_vars

\* The calls one entry may have issued, in their order.
CallOrders ==
    {<<>>, <<"verify">>, <<"verify", "fetch">>, <<"verify", "fetch", "store">>,
     <<"fetch">>, <<"fetch", "store">>}

\* C30: the entries are taken one at a time in the order of the listing; for
\* each entry the integrity check comes before the detail fetch and the detail
\* fetch before the store write, each issued at most once; the call in
\* progress is the last one issued, so no two store writes run together; and
\* the next entry starts only when no call of the current one is in progress.
C30_StrictSequencing ==
    /\ [](loop.calls \in CallOrders)
    /\ [](loop.pc \in {"verifying", "fetching", "storing"} =>
              /\ loop.calls # <<>>
              /\ loop.pc = CASE loop.calls[Len(loop.calls)] = "verify" -> "verifying"
                             [] loop.calls[Len(loop.calls)] = "fetch"  -> "fetching"
                             [] OTHER                                  -> "storing")
    /\ [][/\ loop'.i # loop.i =>
                 /\ loop.pc = "next"
                 /\ loop'.i = loop.i + 1
                 /\ Len(loop'.calls) = 1
          /\ loop'.i = loop.i =>
                 \/ loop'.calls = loop.calls
                 \/ /\ loop.pc # "next"
                    /\ Len(loop'.calls) = Len(loop.calls) + 1
                    /\ SubSeq(loop'.calls, 1, Len(loop.calls)) = loop.calls]_vars

\* The second entry of a listing was checked, then fetched, and is being stored.
C30_Witness ==
    /\ loop.i = 2
    /\ loop.pc = "storing"
    /\ loop.calls = <<"verify", "fetch", "store">>

\* The days under which a wrapper file of the identifier exists.
DaysWithFile(id) == {d \in Days : files[WrapperPathFor(id, d)].kind # "nofile"}

\* C31: a store_conversation that returns True writes exactly one file, the one
\* named by the UTC date of the call and the token of the identifier, and
\* leaves every other file as it is; so the wrapper files of an identifier are
\* as many as the days on which it was stored.
C31_DatePartitioning ==
    /\ [](\A id \in Ids : /\ DaysWithFile(id) = storedOn[id]
                          /\ Cardinality(DaysWithFile(id)) = Cardinality(storedOn[id]))
    /\ [][\A r \in Records, id \in Ids :
              StoreOnDay(r, id) =>
                  /\ files'[<<today, FileToken(id)>>] = StoredObj(store.key, r, [id |-> id])
                  /\ \A p \in Paths : p # <<today, FileToken(id)>> => files'[p] = files[p]]_vars

\* One identifier was stored on the first day and, with another record, on the
\* second: two files, the first still holding the first record.
C31_Witness ==
    /\ storedOn["abc123"] = {1, 2}
    /\ files[<<1, FileToken("abc123")>>].encrypted_content.plain = JsonDumps("r1")
    /\ files[<<2, FileToken("abc123")>>].encrypted_content.plain = JsonDumps("r2")

\* C32: the file that the lookup of an identifier resolves is one that was
\* written under that identifier (store_conversation names it by the token of
\* the identifier); retrieve_conversation returns no record of another
\* identifier, and verify_conversation on a sound store is MISSING when no file
\* was written under the identifier.
C32_LookupNeverCrosses ==
    store.open =>
        \A id \in AllIds :
            LET path == FindWrapperPath(id)
            IN  /\ path \in Paths => path[2] = FileToken(id)
                /\ (~store.key_mismatch /\ DaysWithFile(id) = {}) =>
                       VerifyConversation(store, id).state = "MISSING"

\* C33: when run_export completes, an identifier that the run counted as
\* successful passes has_valid_conversation on the archive as the run leaves it
\* (stated for the entry processed last).
C33_SuccessfulMeansReadable ==
    [][\A p \in Procs :
          (Finish(p) /\ proc[p].last.ok /\ proc[p].last.id # "unknown") =>
              HasValidConversation(proc[p].st, proc[p].last.id) = "True"]_vars

\* C34: when store_conversation returns False, every identifier whose wrapper
\* was VALID before the call is VALID after it, and retrieve_conversation
\* returns for it what it returned before.
C34_FailedStoreKeepsData ==
    [][\A r \in Records, id \in Ids, io \in StoreFailures \ {"ok"} :
          StoreConversation(r, id, io) =>
              \A x \in AllIds :
                  VerifyConversation(store, x).state = "VALID" =>
                      /\ VerifyConversation(store, x)'.state = "VALID"
                      /\ RetrieveConversation(store, x)' = RetrieveConversation(store, x)]_vars

\* C35: a store object poisoned by a manifest/key mismatch changes no wrapper
\* file: a store_conversation call on it creates, overwrites and modifies nothing.
C35_PoisonedStoreWritesNothing ==
    [][\A r \in Records, id \in Ids, io \in StoreFailures :
          (StoreConversation(r, id, io) /\ Poisoned) => files' = files]_vars

\* C36: an acquire call fails only when another holder has the lock.
C36_AcquireFailsOnlyOnContention ==
    [][\A o \in Procs, io \in AcquireIO :
          (LockAcquire(o, io) /\ ~lockObj'[o].lock_acquired) =>
              \E q \in lockHeld : q # o]_vars

\* C37: a job row has completed_at set exactly when its status is completed or
\* failed.
C37_CompletedAtIffTerminal ==
    \A j \in JobIds :
        ledger[j] # NoRow =>
            (ledger[j].completed_at <=> ledger[j].status \in {"completed", "failed"})

\* C38: whenever a job is completed, its total is the number of conversations
\* the remote holds; a page that is rate-limited on every retry does not end
\* in a completed job with a smaller total.
C38_NoTruncatedExport ==
    listing.pc = "completed" => listing.total = listing.remote

\* A store object constructed with key k on an archive whose manifest binds k.
SoundStore(k) == [open |-> TRUE, key |-> k, key_mismatch |-> FALSE]

\* C39: after rotate_key.py has run with the key the archive was written under,
\* the manifest binds the new key; every identifier that was VALID under the
\* old key is VALID under the new key, with the same record; and every
\* identifier that was CORRUPT before the rotation is not VALID after it.
C39_RotationPreservesStates ==
    [][\A old \in Keys, new \in Keys :
          (RotateKey(old, new) /\ manifest = ManifestFor(old)) =>
              /\ manifest'.kind = "json"
              /\ manifest'.key_fingerprint = Fingerprint(new)
              /\ \A id \in AllIds :
                     /\ VerifyConversation(SoundStore(old), id).state = "VALID" =>
                            /\ VerifyConversation(SoundStore(new), id)'.state = "VALID"
                            /\ RetrieveConversation(SoundStore(new), id)'
                                   = RetrieveConversation(SoundStore(old), id)
                     /\ VerifyConversation(SoundStore(old), id).state = "CORRUPT" =>
                            VerifyConversation(SoundStore(new), id)'.state # "VALID"]_vars

====
